---- MODULE Spec2Model ----
(***************************************************************************)
(* A model of easy-pdf: the object identifiers, the per-document arena of  *)
(* indirect objects (Objects), the process-wide document registry          *)
(* (DOCUMENTS, behind one Mutex), the cross-reference table and the        *)
(* render of a document to a byte sink.                                    *)
(*                                                                         *)
(* Conventions.  Option<T> is a sequence: None is <<>> and Some(x) is      *)
(* <<x>>.  A u32 is kept at its width as a pair <<hi, lo>> of 16-bit       *)
(* halves.  The byte sink is a sequence of chunks, one per group of        *)
(* write_all_count calls, each with the number of bytes it holds.          *)
(***************************************************************************)
EXTENDS Integers, Sequences, FiniteSets, TLC

VARIABLES
    build,        \* "debug" | "release": decides what u32 overflow does
    arena,        \* SpecArena: an Objects value driven directly (objects.rs tests)
    arena_new_id,       \* SpecArena: Option of the last new_object_id result
    arena_panic,  \* SpecArena: new_object_id panicked (debug overflow)
    table,        \* SpecXref: a CrossReferenceTable driven directly
    calls,        \* SpecXref: the log of add_bytes / add_entry calls made on table
    documents,    \* DOCUMENTS: DocumentId -> Objects
    fresh,        \* history: the documents registered and not mutated since
    mutations,    \* history: the number of mutate calls made
    pc,           \* Document::write: the phase the render is in
    doc,          \* Document::write: Option of the Document being written
    sink,         \* the writer: the chunks it has received
    writer,       \* the writer: whether it has broken and fails every call
    xref,         \* Document::write: its CrossReferenceTable
    doc_info,     \* Document::render: Option of the DocInfo it looked up
    catalog,      \* Document::render: Option of the Catalog it looked up
    page_tree,    \* Document::render: Option of the Pages it looked up
    stack,        \* Pages::render: the kids still to visit, innermost loop first
    xref_offset,  \* Document::render: Option of what xref.render returned
    result,       \* Document::write: "none" while running, then its Result
    first_fail,   \* history: Option of the sink's length when a write first failed
    lock,         \* SpecThreads: the thread that holds the DOCUMENTS mutex, 0 for none
    tpc,          \* SpecThreads: where each thread is in its mutate call
    page_local,   \* SpecThreads: the `page` local of each thread's closure
    doc_local,    \* SpecThreads: the document_id argument of each thread's mutate
    seen,         \* SpecThreads: Option of what the last lookup read and returned
    poisoned,     \* SpecThreads: a thread panicked while it held the mutex
    outcome,      \* SpecThreads: how each thread's last registry call ended
    stable,       \* SpecThreads history: the registry when the mutex was last free
    reply,        \* SpecLookups: Option of the last registry call and what it returned
    id_local,     \* SpecRegistering: the new_id local of each thread's register_document
    handles,      \* SpecRegistering history: the handles register_document returned
    args,         \* function harnesses: the value or arguments under test
    ret           \* function harnesses: Option of what the last call returned

\* ------------------------------------------------------------------ bounds

\* Largest small sequence number the arena harness inserts.
MaxArenaSeq == 2
\* Largest generation number the arena harness inserts.
MaxGen == 1
\* Number of add_bytes / add_entry calls made on a table.
MaxCalls == 4
\* Largest document handle the random generator draws.
MaxDocumentId == 1
\* Latest write call of one object's render that the writer fails.
MaxFailPlace == 2
\* Number of threads that use the registry at once.
NumThreads == 2
\* Largest number of elements of an array under test.
MaxElems == 3
\* Largest number of entries of a dictionary under test.
MaxEntries == 3
\* Largest number of kids the add_child harness gives one node.
MaxKids == 3
\* Number of mutate calls the caller makes, over all its documents.
MaxMutations == 3
\* The Pages::render frames, one inside another, that the stack has room for.
MaxDepth == 4
\* Number of new_object_id calls made with no insert in between.
MaxDraws == 3

\* --------------------------------------------------------------- Option<T>

None == <<>>
Some(x) == <<x>>

\* ------------------------------------------------------------ u16 and u32

U16Max == 65535
U16Mod == 65536

\* A u32 from a number small enough to be written down.
U32Of(n) == <<n \div U16Mod, n % U16Mod>>
U32Max == <<U16Max, U16Max>>
U32Lt(a, b) == a[1] < b[1] \/ (a[1] = b[1] /\ a[2] < b[2])
\* a + 1 without a width: hi = 65536 stands for 2^32.
U32MathSucc(a) == IF a[2] < U16Max THEN <<a[1], a[2] + 1>> ELSE <<a[1] + 1, 0>>
\* a + 1 in a release build: wraps modulo 2^32.
U32WrappingSucc(a) == LET s == U32MathSucc(a) IN <<s[1] % U16Mod, s[2]>>

Builds == {"debug", "release"}

\* --------------------------------------------------------------- ObjectId

ObjectIdNew(object_number, generation_number) ==
    [object_number |-> U32Of(object_number), generation_number |-> generation_number]

\* derive(PartialOrd, Ord): by object_number, then by generation_number.
ObjectIdGt(a, b) ==
    \/ U32Lt(b.object_number, a.object_number)
    \/ /\ a.object_number = b.object_number
       /\ a.generation_number > b.generation_number

\* ObjectId::next: object_number + 1, generation reset.  The addition is an
\* unchecked u32 `+`: at u32::MAX a debug build panics and a release build
\* wraps.  The result is an Option: None stands for the panic.
ObjectIdNext(id, b) ==
    IF id.object_number = U32Max /\ b = "debug"
    THEN None
    ELSE Some([object_number |-> U32WrappingSucc(id.object_number),
               generation_number |-> 0])

\* ---------------------------------------------------------------- Object

Document(document_id) ==
    [type |-> "Document", id |-> ObjectIdNew(0, 0), document_id |-> document_id]
DocInfo(id) == [type |-> "DocInfo", id |-> id]
Catalog(id, pages) == [type |-> "Catalog", id |-> id, pages |-> pages]
Pages(id, kids, count) == [type |-> "Pages", id |-> id, kids |-> kids, count |-> count]
Page(id) == [type |-> "Page", id |-> id]

\* IndirectObject::new for each variant.
CatalogNew(id) == Catalog(id, None)
PagesNew(id) == Pages(id, <<>>, 0)

\* --------------------------------------------------------------- Objects

ObjectsNew == [max_id |-> ObjectIdNew(0, 0), objects |-> [k \in {} |-> None]]

ObjectsKeys(o) == DOMAIN o.objects
ObjectsLen(o) == Cardinality(ObjectsKeys(o))
ObjectsGet(o, id) == IF id \in ObjectsKeys(o) THEN Some(o.objects[id]) ELSE None

\* Objects::new_object_id: max_id.next().
NewObjectId(o, b) == ObjectIdNext(o.max_id, b)

\* Objects::by_type, as the set of the objects the Vec holds: the Vec's
\* order is the HashMap's iteration order, which the program does not fix.
ByType(o, type) == {o.objects[k] : k \in {j \in ObjectsKeys(o) : o.objects[j].type = type}}

\* Objects::insert: an upsert by the object's id, advancing max_id.
Insert(o, object) ==
    [max_id  |-> IF ObjectIdGt(object.id, o.max_id) THEN object.id ELSE o.max_id,
     objects |-> [k \in ObjectsKeys(o) \cup {object.id} |->
                     IF k = object.id THEN object ELSE o.objects[k]]]

\* An insert that returns nothing of what it replaced.
InsertReturnNone(o, object) == None

\* What Objects::insert returns: the object replaced.
InsertReturn(o, object) == ObjectsGet(o, object.id)

\* ----------------------------------------------------- CrossReferenceTable

CrossReferenceTableNew ==
    [total_bytes |-> 0,
     entries |-> << [offset |-> 0, generation |-> U16Max, in_use |-> FALSE] >>]

AddBytes(x, bytes_added) == [x EXCEPT !.total_bytes = @ + bytes_added]

NumEntries(x) == Len(x.entries)

\* add_entry that forgets the + 1.
AddEntryNoPlusOne(x, generation, in_use) ==
    [x EXCEPT !.entries = Append(@, [offset |-> x.total_bytes,
                                       generation |-> generation,
                                       in_use |-> in_use])]

AddEntry(x, generation, in_use) ==
    [x EXCEPT !.entries = Append(@, [offset |-> x.total_bytes + 1,
                                       generation |-> generation,
                                       in_use |-> in_use])]

\* ======================================================================
\* SpecXref: a new cross-reference table under any add_bytes / add_entry
\* calls (the harness of test_cross_reference_table).
\* ======================================================================

\* The byte counts handed to add_bytes: nothing, the 9-byte header and the
\* 11-byte entry of the test.
ByteAmounts == {0, 9, 11}
Generations == {0, U16Max}

WriterNew == [broken |-> FALSE]

RegistryIdle == documents = [d \in {} |-> ObjectsNew] /\ fresh = {} /\ mutations = 0
RenderIdle ==
    /\ pc = "idle" /\ doc = None /\ sink = <<>> /\ writer = WriterNew
    /\ xref = CrossReferenceTableNew /\ doc_info = None /\ catalog = None
    /\ page_tree = None /\ stack = <<>> /\ xref_offset = None
    /\ result = "none" /\ first_fail = None
Threads == 1..NumThreads
ThreadsIdle ==
    /\ lock = 0 /\ tpc = [t \in Threads |-> "idle"]
    /\ page_local = [t \in Threads |-> None] /\ seen = None
    /\ doc_local = [t \in Threads |-> None]
    /\ poisoned = FALSE /\ outcome = [t \in Threads |-> "none"]
    /\ stable = [d \in {} |-> ObjectsNew]
ArenaIdle == arena = ObjectsNew /\ arena_new_id = None /\ arena_panic = FALSE
XrefIdle == table = CrossReferenceTableNew /\ calls = <<>>

arena_vars == <<arena, arena_new_id, arena_panic>>
xref_vars == <<table, calls>>
registry_vars == <<documents, fresh, mutations>>
render_vars == <<pc, doc, sink, writer, xref, doc_info, catalog, page_tree, stack,
                 xref_offset, result, first_fail>>
vars == <<build, arena, arena_new_id, arena_panic, table, calls, documents, fresh, mutations,
          pc, doc, sink, writer, xref, doc_info, catalog, page_tree, stack,
          xref_offset, result, first_fail, lock, tpc, page_local, doc_local, seen, poisoned,
          outcome, stable, reply, id_local, handles, args, ret>>
pure_vars == <<args, ret>>
PureIdle == args = None /\ ret = None
call_vars == <<reply, id_local, handles>>
register_vars == <<id_local, handles>>
CallsIdle == reply = None /\ id_local = [t \in Threads |-> None] /\ handles = <<>>
thread_vars == <<lock, tpc, page_local, doc_local, seen, poisoned, outcome, stable>>

XAddBytes ==
    /\ Len(calls) < MaxCalls
    /\ \E n \in ByteAmounts :
          /\ table' = AddBytes(table, n)
          /\ calls' = Append(calls, [op |-> "add_bytes", n |-> n])
    /\ UNCHANGED <<build, pure_vars, call_vars, arena_vars, registry_vars, render_vars, thread_vars>>

XAddEntry ==
    /\ Len(calls) < MaxCalls
    /\ \E g \in Generations, u \in BOOLEAN :
          /\ table' = AddEntry(table, g, u)
          /\ calls' = Append(calls, [op |-> "add_entry", generation |-> g, in_use |-> u])
    /\ UNCHANGED <<build, pure_vars, call_vars, arena_vars, registry_vars, render_vars, thread_vars>>

XInit == ThreadsIdle /\ CallsIdle /\ PureIdle /\ build = "release" /\ ArenaIdle /\ XrefIdle /\ RegistryIdle /\ RenderIdle
XNext == XAddBytes \/ XAddEntry
SpecXref == XInit /\ [][XNext]_vars

\* Sum of the add_bytes amounts among the first n calls.
RECURSIVE BytesBefore(_, _)
BytesBefore(log, n) ==
    IF n = 0 THEN 0
    ELSE BytesBefore(log, n - 1) + (IF log[n].op = "add_bytes" THEN log[n].n ELSE 0)

\* The positions in the log of the add_entry calls, in order.
RECURSIVE EntryCalls(_, _)
EntryCalls(log, n) ==
    IF n = 0 THEN <<>>
    ELSE IF log[n].op = "add_entry"
         THEN Append(EntryCalls(log, n - 1), n)
         ELSE EntryCalls(log, n - 1)

C8State ==
    LET made == EntryCalls(calls, Len(calls)) IN
    /\ table.entries[1] = [offset |-> 0, generation |-> U16Max, in_use |-> FALSE]
    /\ NumEntries(table) = 1 + Len(made)
    /\ \A i \in 1..Len(made) :
          table.entries[i + 1].offset = 1 + BytesBefore(calls, made[i] - 1)
    /\ \A i \in 1..(NumEntries(table) - 1) :
          table.entries[i].offset <= table.entries[i + 1].offset

\* C8: on a new cross-reference table, after any add_bytes and add_entry
\* calls, entry 0 is still {0, 65535, not in use}, there are 1 + (number of
\* add_entry calls) entries, each added entry's offset is 1 + the sum of the
\* add_bytes amounts made before it, offsets never decrease along the table,
\* and a step that adds bytes leaves every existing entry as it was.
C8_XrefOffsets ==
    /\ []C8State
    /\ [][table'.total_bytes # table.total_bytes => table'.entries = table.entries]_vars

\* The test's run: 9 bytes, an entry, 11 bytes, an entry: offsets 0, 10, 21.
C8_Witness ==
    /\ NumEntries(table) = 3
    /\ table.entries[2].offset = 10
    /\ table.entries[3].offset = 21
    /\ table.total_bytes = 20

\* ======================================================================
\* SpecArena: one Objects arena under any inserts and new_object_id calls
\* (the harness of objects.rs test_objects).
\* ======================================================================

ArenaIds ==
    {ObjectIdNew(n, g) : n \in 0..MaxArenaSeq, g \in 0..MaxGen}
        \cup {[object_number |-> U32Max, generation_number |-> 0]}
ArenaObjects ==
    {Document(0)} \cup {CatalogNew(id) : id \in ArenaIds} \cup {Page(id) : id \in ArenaIds}

ArenaInsert ==
    /\ ~arena_panic
    /\ \E object \in ArenaObjects : arena' = Insert(arena, object)
    /\ arena_new_id' = None
    /\ UNCHANGED <<build, pure_vars, call_vars, arena_panic, xref_vars, registry_vars, render_vars, thread_vars>>

ArenaNewObjectId ==
    /\ ~arena_panic
    /\ arena_new_id = None
    /\ LET r == NewObjectId(arena, build) IN
          /\ arena_new_id' = r
          /\ arena_panic' = (r = None)
    /\ UNCHANGED <<build, pure_vars, call_vars, arena, xref_vars, registry_vars, render_vars, thread_vars>>

AInit == ThreadsIdle /\ CallsIdle /\ PureIdle /\ build \in Builds /\ ArenaIdle /\ XrefIdle /\ RegistryIdle /\ RenderIdle
ANext == ArenaInsert \/ ArenaNewObjectId
SpecArena == AInit /\ [][ANext]_vars

\* The largest object number among a non-empty set of ids.
MaxObjectNumber(ids) ==
    (CHOOSE i \in ids : \A j \in ids : ~U32Lt(i.object_number, j.object_number)).object_number

\* C9: after any inserts, new_object_id returns (s + 1, 0), where s is the
\* largest sequence number inserted so far (0 for an empty arena), and the
\* id it returns is not a key of the arena.
C9_NewObjectId ==
    LET s == IF ObjectsKeys(arena) = {} THEN U32Of(0)
             ELSE MaxObjectNumber(ObjectsKeys(arena))
    IN  /\ ~arena_panic
        /\ arena_new_id # None =>
              /\ arena_new_id[1] = [object_number |-> U32MathSucc(s), generation_number |-> 0]
              /\ arena_new_id[1] \notin ObjectsKeys(arena)

\* ======================================================================
\* Spec: the document registry and Document::write, driven by one caller:
\* register_document, mutate with the closures below, and the render of a
\* document to a sink that may fail.  The caller mutates a document only
\* while no render of it is running, and drops the output of a finished
\* write before it mutates again.
\* ======================================================================

\* ------------------------------------------------------------ the sink

\* One group of write_all_count calls: what was written, for which object,
\* how many bytes, and the values the bytes spell out.
Chunk(kind, id, bytes, data) == [kind |-> kind, id |-> id, bytes |-> bytes, data |-> data]

\* Writes the chunks in turn, each with `?`: stops at the first failure.
\* fail is the place among the chunks of the write call that fails (0: none
\* does).  write_all_count calls writer.write until the buffer is empty: the
\* writer may take part of the buffer and fail the next call, and the
\* bytes it took are in the sink though the call returns Err.  -k is the
\* k-th chunk failing after the writer took one byte of it.
WriteAll(chunks, fail) ==
    IF fail = 0 THEN [ok |-> TRUE, written |-> chunks]
    ELSE IF fail > 0 THEN [ok |-> FALSE, written |-> SubSeq(chunks, 1, fail - 1)]
    ELSE LET chunk == chunks[-fail] IN
         [ok |-> FALSE,
          written |-> SubSeq(chunks, 1, (-fail) - 1) \o
                      (IF chunk.bytes > 1
                       THEN <<[chunk EXCEPT !.kind = "partial", !.bytes = 1]>>
                       ELSE <<>>)]

\* What a writer may do with n chunks: a broken writer fails the first call,
\* any other writer takes them all or fails one call, here one of the first
\* MaxFailPlace.
FailChoices(w, n) ==
    IF w.broken THEN {1}
    ELSE {k \in 0..n : k <= MaxFailPlace} \cup {-k : k \in {j \in 1..n : j <= MaxFailPlace}}

RECURSIVE SumBytes(_)
SumBytes(chunks) == IF chunks = <<>> THEN 0 ELSE Head(chunks).bytes + SumBytes(Tail(chunks))

\* --------------------------------------------------- lengths of the text

RECURSIVE Digits(_)
Digits(n) == IF n < 10 THEN 1 ELSE 1 + Digits(n \div 10)

\* 10^9 = 15258 * 65536 + 51712: from there on a u32 has ten digits.
DigitsU32(u) ==
    IF u[1] > 15258 \/ (u[1] = 15258 /\ u[2] >= 51712) THEN 10
    ELSE Digits(u[1] * U16Mod + u[2])

\* ObjectId::to_string, "N G obj", and to_string_ref, "N G R".
ToStringBytes(id) == DigitsU32(id.object_number) + 1 + Digits(id.generation_number) + 4
ToStringRefBytes(id) == DigitsU32(id.object_number) + 1 + Digits(id.generation_number) + 2

\* render_array over Raw references: brackets, the elements, and a space
\* after each element that differs from the last element of the array.
RECURSIVE RefsBytes(_)
RefsBytes(ids) == IF ids = <<>> THEN 0 ELSE ToStringRefBytes(Head(ids)) + RefsBytes(Tail(ids))
RenderArrayBytes(ids) ==
    2 + RefsBytes(ids)
      + Cardinality({i \in 1..Len(ids) : ids[i] # ids[Len(ids)]})

\* "/Count c /Kids [..] /Type /Pages": render_dictionary, keys sorted.
PagesDictBytes(pages) == 7 + Digits(pages.count) + 1 + 6 + RenderArrayBytes(pages.kids) + 1 + 12
\* "/Parent N G R /Type /Page".
PageDictBytes(parent) == 8 + ToStringRefBytes(parent) + 1 + 11
\* "/CreationDate (D:..) /Creator (..) /ModDate (D:..) /Producer (..)" of
\* DocInfo::new, with the lengths of the test's expected text.
DocInfoDictBytes == 127
\* "/Info N G R /Root N G R /Size n".
TrailerDictBytes(info, root, size) ==
    6 + ToStringRefBytes(info) + 1 + 6 + ToStringRefBytes(root) + 1 + 6 + Digits(size)

\* --------------------------------------------------- rendering an object

\* The state a render threads through its calls.
RenderState(s, x, w, f) == [sink |-> s, xref |-> x, writer |-> w, first_fail |-> f]

\* The bytes add_bytes is called with: those of the write_all_count calls
\* that returned Ok, and those of a dictionary when its render returned Ok,
\* which is after its last write.
CountedBytes(written) ==
    LET whole == \E i \in 1..Len(written) : written[i].kind = "dict_close"
    IN  SumBytes(SelectSeq(written,
            LAMBDA c : /\ c.kind # "partial"
                       /\ c.kind \in {"dict_open", "dict_body"} => whole))

\* write_all_count over the chunks with `?`, xref.add_bytes for each one
\* written when counted.
WriteChunks(st, chunks, counted, fail, sticky) ==
    LET r == WriteAll(chunks, fail)
        s == st.sink \o r.written
    IN  [ok |-> r.ok,
         st |-> RenderState(
             s,
             IF counted THEN AddBytes(st.xref, CountedBytes(r.written)) ELSE st.xref,
             [broken |-> st.writer.broken \/ (~r.ok /\ sticky)],
             IF ~r.ok /\ st.first_fail = None THEN Some(Len(s)) ELSE st.first_fail)]

\* The shape DocInfo::render, Pages::render and Page::render share: the
\* cross-reference entry first, then "N G obj", "\n", the dictionary and
\* "\nendobj\n".
ObjectChunks(id, dict_bytes, data) ==
    << Chunk("obj", Some(id), ToStringBytes(id), data),
       Chunk("nl", Some(id), 1, data),
       Chunk("dict_open", Some(id), 3, data),
       Chunk("dict_body", Some(id), dict_bytes, data),
       Chunk("dict_close", Some(id), 3, data),
       Chunk("endobj", Some(id), 8, data) >>

ObjectRender(st, id, dict_bytes, data, fail, sticky) ==
    WriteChunks([st EXCEPT !.xref = AddEntry(@, id.generation_number, TRUE)],
                ObjectChunks(id, dict_bytes, data), TRUE, fail, sticky)

DocInfoRender(st, info, fail, sticky) ==
    ObjectRender(st, info.id, DocInfoDictBytes, <<"DocInfo">>, fail, sticky)

\* Catalog::render: Ok(()), nothing written, no entry added.
CatalogRender(st, cat) == [ok |-> TRUE, st |-> st]

\* Pages::render up to its loop over the kids.
PagesRenderSelf(st, pages, fail, sticky) ==
    ObjectRender(st, pages.id, PagesDictBytes(pages),
                 <<"Pages", pages.kids, pages.count>>, fail, sticky)

PageRender(st, page, parent, fail, sticky) ==
    ObjectRender(st, page.id, PageDictBytes(parent), <<"Page", parent>>, fail, sticky)

\* The loop of Pages::render: one task for each kid, in kid-list order.
\* depth is the number of Pages::render frames the kid's render runs under.
KidTasks(pages, depth) ==
    [i \in 1..Len(pages.kids) |-> [kid |-> pages.kids[i], parent |-> pages.id, depth |-> depth]]

\* CrossReferenceTable::render: "xref\n0 N\n" and a 20-byte line for each
\* entry; it returns the offset the section starts at.
XrefRender(st, fail, sticky) ==
    LET n == NumEntries(st.xref)
        r == WriteChunks(st, << Chunk("xref", None, 5 + 2 + Digits(n) + 1 + 20 * n,
                                       <<st.xref.entries>>) >>, FALSE, fail, sticky)
    IN  [ok |-> r.ok, st |-> r.st, offset |-> st.xref.total_bytes]

\* The trailer of Document::render.
TrailerChunks(info, cat, x, offset) ==
    << Chunk("trailer", None, 8, <<>>),
       Chunk("trailer_open", None, 3, <<>>),
       Chunk("trailer_dict", None, TrailerDictBytes(info.id, cat.id, NumEntries(x)),
             <<"Trailer", info.id, NumEntries(x), cat.id>>),
       Chunk("trailer_close", None, 3, <<>>),
       Chunk("startxref", None, 11, <<>>),
       Chunk("xref_offset", None, Digits(offset) + 1, <<offset>>),
       Chunk("eof", None, 6, <<>>) >>

\* ------------------------------------------------------------ registry

DocumentIds == 0..MaxDocumentId

\* register_document without catalog.set_pages(Some(pages_id)).
RegisterDocumentNoSetPages(new_id) ==
    LET o0 == Insert(ObjectsNew, Document(new_id))
        pages_id == NewObjectId(o0, build)[1]
        o1 == Insert(o0, PagesNew(pages_id))
        id == NewObjectId(o1, build)[1]
    IN  Insert(o1, CatalogNew(id))

\* Documents::register_document, given the id new_document_id drew.
RegisterDocumentObjects(new_id) ==
    LET o0 == Insert(ObjectsNew, Document(new_id))
        pages_id == NewObjectId(o0, build)[1]
        o1 == Insert(o0, PagesNew(pages_id))
        id == NewObjectId(o1, build)[1]
    IN  Insert(o1, Catalog(id, Some(pages_id)))

\* An add_child that takes any object as a kid.
AddChildAnyObject(pages, child) ==
    Some([pages EXCEPT !.kids = Append(@, child.id), !.count = @ + 1])

\* Pages::add_child: Some of the node with the child appended, None for the
\* error.
AddChild(pages, child) ==
    IF child.type \in {"Pages", "Page"}
    THEN Some([pages EXCEPT !.kids = Append(@, child.id), !.count = @ + 1])
    ELSE None

\* The caller has mutate calls left.
CanMutate == mutations < MaxMutations

\* The caller owns the sink and the table: it drops them before it goes on
\* building.
DropOutput ==
    /\ pc \in {"idle", "done"}
    /\ pc' = "idle" /\ doc' = None /\ sink' = <<>> /\ writer' = WriterNew
    /\ xref' = CrossReferenceTableNew /\ doc_info' = None /\ catalog' = None
    /\ page_tree' = None /\ stack' = <<>> /\ xref_offset' = None
    /\ result' = "none" /\ first_fail' = None

Mutated(d, objects) ==
    /\ documents' = [documents EXCEPT ![d] = objects]
    /\ fresh' = fresh \ {d}
    /\ mutations' = mutations + 1
    /\ DropOutput
    /\ UNCHANGED <<build, pure_vars, call_vars, arena_vars, xref_vars, thread_vars>>

\* A generator that does not look at the ids in use.
NewDocumentIdsAny(docs) == DocumentIds

\* new_document_id: the ids its loop can return, a random DocumentId that
\* is not a key of the registry.
NewDocumentIds(docs) == DocumentIds \ DOMAIN docs

\* new_document_id draws until the id is not a key; register_document.
RegisterDocument ==
    /\ \E new_id \in NewDocumentIds(documents) :
          /\ documents' = [d \in DOMAIN documents \cup {new_id} |->
                              IF d = new_id THEN RegisterDocumentObjects(new_id)
                              ELSE documents[d]]
          /\ fresh' = fresh \cup {new_id}
    /\ UNCHANGED mutations
    /\ DropOutput
    /\ UNCHANGED <<build, pure_vars, call_vars, arena_vars, xref_vars, thread_vars>>

\* mutate(d, |objects| objects.insert(Object::DocInfo(DocInfo::new(objects.new_object_id()))))
MutateInsertDocInfo ==
    \E d \in DOMAIN documents :
        /\ CanMutate
        /\ Mutated(d, Insert(documents[d], DocInfo(NewObjectId(documents[d], build)[1])))

\* The closure of test_mutate: a second Catalog at a new id.
MutateInsertCatalog ==
    \E d \in DOMAIN documents :
        /\ CanMutate
        /\ Mutated(d, Insert(documents[d], CatalogNew(NewObjectId(documents[d], build)[1])))

\* The closure of document.rs test_render: a new Page, inserted, then added
\* to objects.page_tree(), which is inserted again.  page_tree() is the
\* first Pages of the HashMap's iteration order: any of them.
MutateAddPage ==
    \E d \in DOMAIN documents :
        /\ CanMutate
        /\ LET page == Page(NewObjectId(documents[d], build)[1])
               o1 == Insert(documents[d], page)
           IN  \E tree \in ByType(o1, "Pages") :
                   Mutated(d, Insert(o1, AddChild(tree, page)[1]))

\* The same with a new Pages node as the child; page_tree() is taken before
\* the node is inserted, so the node is never its own parent.
MutateAddPages ==
    \E d \in DOMAIN documents :
        /\ CanMutate
        /\ \E tree \in ByType(documents[d], "Pages") :
               LET node == PagesNew(NewObjectId(documents[d], build)[1])
                   o1 == Insert(documents[d], node)
               IN  Mutated(d, Insert(o1, AddChild(tree, node)[1]))

\* -------------------------------------------------------------- render

RenderStateNow == RenderState(sink, xref, writer, first_fail)

SetRenderState(st) ==
    /\ sink' = st.sink
    /\ xref' = st.xref
    /\ writer' = st.writer
    /\ first_fail' = st.first_fail

\* The render returns to the caller of Document::write.
Return(r) == pc' = "done" /\ result' = r

\* A write that goes on with the table the last render left.
WriteTableKept == xref

\* Document::write: let mut xref = CrossReferenceTable::new().
WriteTable == CrossReferenceTableNew

\* get_document(d), then Document::write: a new table, and the header line
\* of Document::render.
DocumentWrite ==
    /\ pc \in {"idle", "done"}
    /\ \E d \in DOMAIN documents, sticky \in BOOLEAN :
       \E document \in ByType(documents[d], "Document"), fail \in FailChoices(WriterNew, 1) :
          LET r == WriteChunks(
                       RenderState(<<>>, WriteTable, WriterNew, None),
                       << Chunk("header", None, 9, <<>>) >>, TRUE, fail, sticky)
          IN  /\ (fail = 0 => ~sticky)
              /\ doc' = Some(document)
              /\ SetRenderState(r.st)
              /\ IF r.ok THEN pc' = "info" /\ result' = "none" ELSE Return("err_io")
    /\ doc_info' = None /\ catalog' = None /\ page_tree' = None
    /\ stack' = <<>> /\ xref_offset' = None
    /\ UNCHANGED <<build, pure_vars, call_vars, arena_vars, xref_vars, thread_vars, registry_vars>>

\* The arena the render's lookups read: documents::get(self.document_id()).
RenderObjects == documents[doc[1].document_id]

\* DocInfo::get_doc_info (find_map over the HashMap's values: any DocInfo),
\* ok_or(..)?, then doc_info.render(..)?.
RenderDocInfo ==
    /\ pc = "info"
    /\ IF ByType(RenderObjects, "DocInfo") = {}
       THEN /\ Return("err_no_doc_info")
            /\ UNCHANGED <<sink, xref, writer, first_fail, doc_info>>
       ELSE \E info \in ByType(RenderObjects, "DocInfo"), sticky \in BOOLEAN :
            \E fail \in FailChoices(writer, Len(ObjectChunks(info.id, 0, <<>>))) :
               LET r == DocInfoRender(RenderStateNow, info, fail, sticky)
               IN  /\ (fail = 0 => ~sticky)
                   /\ doc_info' = Some(info)
                   /\ SetRenderState(r.st)
                   /\ IF r.ok THEN pc' = "catalog" /\ UNCHANGED result
                      ELSE Return("err_io")
    /\ UNCHANGED <<build, pure_vars, call_vars, arena_vars, xref_vars, thread_vars, registry_vars, doc, catalog,
                   page_tree, stack, xref_offset>>

\* Catalog::get_catalog, ok_or(..)?, then catalog.render(..)?.
RenderCatalog ==
    /\ pc = "catalog"
    /\ IF ByType(RenderObjects, "Catalog") = {}
       THEN /\ Return("err_no_catalog")
            /\ UNCHANGED <<sink, xref, writer, first_fail, catalog>>
       ELSE \E cat \in ByType(RenderObjects, "Catalog") :
               LET r == CatalogRender(RenderStateNow, cat)
               IN  /\ catalog' = Some(cat)
                   /\ SetRenderState(r.st)
                   /\ IF r.ok THEN pc' = "page_tree" /\ UNCHANGED result
                      ELSE Return("err_io")
    /\ UNCHANGED <<build, pure_vars, call_vars, arena_vars, xref_vars, thread_vars, registry_vars, doc, doc_info,
                   page_tree, stack, xref_offset>>

\* Pages::get_page_tree, ok_or(..)?, then page_tree.render(..)? up to its
\* loop over the kids.
RenderPageTree ==
    /\ pc = "page_tree"
    /\ IF ByType(RenderObjects, "Pages") = {}
       THEN /\ Return("err_no_page_tree")
            /\ UNCHANGED <<sink, xref, writer, first_fail, page_tree, stack>>
       ELSE \E tree \in ByType(RenderObjects, "Pages"), sticky \in BOOLEAN :
            \E fail \in FailChoices(writer, Len(ObjectChunks(tree.id, 0, <<>>))) :
               LET r == PagesRenderSelf(RenderStateNow, tree, fail, sticky)
               IN  /\ (fail = 0 => ~sticky)
                   /\ page_tree' = Some(tree)
                   /\ SetRenderState(r.st)
                   /\ IF r.ok THEN /\ pc' = "kids"
                                   /\ stack' = KidTasks(tree, 1)
                                   /\ UNCHANGED result
                      ELSE Return("err_io") /\ UNCHANGED stack
    /\ UNCHANGED <<build, pure_vars, call_vars, arena_vars, xref_vars, thread_vars, registry_vars, doc, doc_info,
                   catalog, xref_offset>>

\* A lookup that makes up a Page for an id the arena does not hold.
get_object_or_page(objects, object_id) ==
    IF object_id \in ObjectsKeys(objects) THEN Some(objects.objects[object_id])
    ELSE Some(Page(object_id))

\* documents::get_object on the arena of a registered document:
\* objects.get(object_id).cloned().
get_object(objects, object_id) == ObjectsGet(objects, object_id)

\* One turn of the loop of Pages::render: get_object(doc_id, kid_id), and
\* for a kid that is there `Some(kid.render(..))`, whose Result is dropped.
\* A Pages kid that wrote itself goes on to its own kids; one that failed
\* has returned.  The recursion has no bound of its own: a kid whose render
\* would run under more than MaxDepth frames finds the thread's stack
\* used up, and the process aborts.
RenderKid ==
    /\ pc = "kids"
    /\ stack # <<>>
    /\ LET task == Head(stack)
           kid == get_object(RenderObjects, task.kid)
       IN  IF kid = None
           THEN /\ stack' = Tail(stack)
                /\ UNCHANGED <<sink, xref, writer, first_fail, pc, result>>
           ELSE IF task.depth > MaxDepth
           THEN /\ Return("stack_overflow")
                /\ UNCHANGED <<sink, xref, writer, first_fail, stack>>
           ELSE \E sticky \in BOOLEAN :
                \E fail \in FailChoices(writer, Len(ObjectChunks(task.kid, 0, <<>>))) :
                   /\ (fail = 0 => ~sticky)
                   /\ UNCHANGED <<pc, result>>
                   /\ IF kid[1].type = "Pages"
                      THEN LET r == PagesRenderSelf(RenderStateNow, kid[1], fail, sticky)
                           IN  /\ SetRenderState(r.st)
                               /\ stack' = IF r.ok
                                           THEN KidTasks(kid[1], task.depth + 1) \o Tail(stack)
                                           ELSE Tail(stack)
                      ELSE LET r == PageRender(RenderStateNow, kid[1], task.parent, fail, sticky)
                           IN  /\ SetRenderState(r.st)
                               /\ stack' = Tail(stack)
    /\ UNCHANGED <<build, pure_vars, call_vars, arena_vars, xref_vars, thread_vars, registry_vars, doc, doc_info,
                   catalog, page_tree, xref_offset>>

\* page_tree.render returned Ok: xref.render(writer)?.
RenderXref ==
    /\ pc = "kids"
    /\ stack = <<>>
    /\ \E sticky \in BOOLEAN, fail \in FailChoices(writer, 1) :
          LET r == XrefRender(RenderStateNow, fail, sticky)
          IN  /\ (fail = 0 => ~sticky)
              /\ SetRenderState(r.st)
              /\ IF r.ok THEN /\ pc' = "trailer"
                              /\ xref_offset' = Some(r.offset)
                              /\ UNCHANGED result
                 ELSE Return("err_io") /\ UNCHANGED xref_offset
    /\ UNCHANGED <<build, pure_vars, call_vars, arena_vars, xref_vars, thread_vars, registry_vars, doc, doc_info,
                   catalog, page_tree, stack>>

\* The trailer, then Ok(()).
RenderTrailer ==
    /\ pc = "trailer"
    /\ LET chunks == TrailerChunks(doc_info[1], catalog[1], xref, xref_offset[1])
       IN  \E sticky \in BOOLEAN, fail \in FailChoices(writer, Len(chunks)) :
              LET r == WriteChunks(RenderStateNow, chunks, FALSE, fail, sticky)
              IN  /\ (fail = 0 => ~sticky)
                  /\ SetRenderState(r.st)
                  /\ Return(IF r.ok THEN "ok" ELSE "err_io")
    /\ UNCHANGED <<build, pure_vars, call_vars, arena_vars, xref_vars, thread_vars, registry_vars, doc, doc_info,
                   catalog, page_tree, stack, xref_offset>>

\* The object numbers of this specification stay far below u32::MAX, where
\* the two builds differ.
Init == ThreadsIdle /\ CallsIdle /\ PureIdle /\ build = "release" /\ ArenaIdle /\ XrefIdle /\ RegistryIdle /\ RenderIdle
Next ==
    \/ RegisterDocument
    \/ MutateInsertDocInfo
    \/ MutateInsertCatalog
    \/ MutateAddPage
    \/ MutateAddPages
    \/ DocumentWrite
    \/ RenderDocInfo
    \/ RenderCatalog
    \/ RenderPageTree
    \/ RenderKid
    \/ RenderXref
    \/ RenderTrailer
Spec == Init /\ [][Next]_vars

\* SpecRegistry: the registry alone, with no write of a document.
RegistryNext ==
    \/ RegisterDocument
    \/ MutateInsertDocInfo
    \/ MutateInsertCatalog
    \/ MutateAddPage
    \/ MutateAddPages
SpecRegistry == Init /\ [][RegistryNext]_vars

\* ======================================================================
\* The claims about the registry and the render.
\* ======================================================================

Done == pc = "done"
Succeeded == Done /\ result = "ok"

\* C2: writing a document straight from register_document, with nothing
\* mutated in between and a writer that takes every byte, returns Ok.
C2_FreshWriteOk ==
    (Done /\ doc[1].document_id \in fresh /\ first_fail = None) => result = "ok"

\* The places in the sink of the chunks of a kind.
Places(kind) == {i \in 1..Len(sink) : sink[i].kind = kind}

\* The ids of the "N G obj" headers the sink received, in order.
RECURSIVE ObjIds(_)
ObjIds(chunks) ==
    IF chunks = <<>> THEN <<>>
    ELSE IF Head(chunks).kind = "obj"
         THEN <<Head(chunks).id[1]>> \o ObjIds(Tail(chunks))
         ELSE ObjIds(Tail(chunks))

\* The page tree under an id, depth first: a node, then the subtrees of its
\* kids in kid-list order.  fuel bounds the depth.
RECURSIVE DepthFirst(_, _, _)
RECURSIVE DepthFirstKids(_, _, _)
DepthFirst(o, id, fuel) ==
    IF fuel = 0 \/ id \notin ObjectsKeys(o) THEN <<>>
    ELSE IF o.objects[id].type = "Pages"
         THEN <<id>> \o DepthFirstKids(o, o.objects[id].kids, fuel - 1)
         ELSE <<id>>
DepthFirstKids(o, kids, fuel) ==
    IF kids = <<>> THEN <<>>
    ELSE DepthFirst(o, Head(kids), fuel) \o DepthFirstKids(o, Tail(kids), fuel)

\* C3: a successful render hands the sink, in this order and once each, the
\* header line, the document-information object, the catalog object, the
\* page-tree objects depth first, the cross-reference table and the trailer.
C3_RenderOrder ==
    Succeeded =>
        /\ Places("header") = {1}
        /\ ObjIds(sink) = <<doc_info[1].id, catalog[1].id>>
                            \o DepthFirst(RenderObjects, page_tree[1].id,
                                          ObjectsLen(RenderObjects))
        /\ Cardinality(Places("xref")) = 1
        /\ Cardinality(Places("trailer")) = 1
        /\ \A i \in Places("obj"), x \in Places("xref"), t \in Places("trailer") :
              1 < i /\ i < x /\ x < t

\* C4: when a write fails while any object is rendered, at any depth of the
\* page tree, the render stops there and Document::write returns that
\* failure: nothing is written after the failure.
C4_FailureAborts ==
    first_fail # None =>
        /\ Done
        /\ result = "err_io"
        /\ Len(sink) = first_fail[1]

\* The number of bytes the sink received before its i-th chunk.
BytesBeforeChunk(i) == SumBytes(SubSeq(sink, 1, i - 1))

\* An object number as a table position, for the numbers small enough.
Position(object_number) == object_number[1] * U16Mod + object_number[2]

\* C5: after a successful render, every object written with sequence number
\* n has, at position n of the cross-reference table, an entry in use that
\* holds its generation and its offset.
C5_EntryAtSequence ==
    Succeeded =>
        \A i \in Places("obj") :
            LET id == sink[i].id[1]
                n == Position(id.object_number)
            IN  /\ n < NumEntries(xref)
                /\ xref.entries[n + 1] = [offset |-> 1 + BytesBeforeChunk(i),
                                           generation |-> id.generation_number,
                                           in_use |-> TRUE]

\* The trailer dictionary the sink received: <<"Trailer", Info, Size, Root>>.
TrailerDict == sink[CHOOSE i \in Places("trailer_dict") : TRUE].data

\* C6: after a successful render the cross-reference table has, and the
\* trailer's Size is, 1 + the number of objects of the arena other than the
\* Document at sequence 0.
C6_EntryCount ==
    Succeeded =>
        LET live == {k \in ObjectsKeys(RenderObjects) : k.object_number # U32Of(0)} IN
        /\ NumEntries(xref) = 1 + Cardinality(live)
        /\ TrailerDict[3] = 1 + Cardinality(live)

\* The object is defined in the body and the table has an entry for it.
DefinedInBody(id) ==
    \E i \in Places("obj") :
        /\ sink[i].id = Some(id)
        /\ \E e \in 2..NumEntries(xref) :
              xref.entries[e] = [offset |-> 1 + BytesBeforeChunk(i),
                                 generation |-> id.generation_number,
                                 in_use |-> TRUE]

\* C7: the trailer of a successful render carries Info and Root, each the
\* reference of an object defined in the body with a cross-reference entry,
\* and Size, the number of entries with the sentinel; the number after
\* startxref is the offset the cross-reference phase returned.
C7_Trailer ==
    Succeeded =>
        /\ DefinedInBody(TrailerDict[2])
        /\ DefinedInBody(TrailerDict[4])
        /\ TrailerDict[3] = NumEntries(xref)
        /\ \A i \in Places("xref_offset") : sink[i].data = <<xref_offset[1]>>

\* ======================================================================
\* SpecThreads: several threads on the registry of one registered document.
\* Each runs mutate with the closure of document.rs test_render, one insert
\* at a time, and the lookups get, get_object and get_document.
\* ======================================================================

\* A lock that excludes nobody.
MutexNeverHeld(t) == TRUE

\* DOCUMENTS.lock() returns only while no other guard is alive.
MutexFree(t) == lock = 0

\* A lock that hands out its guard whether or not it is poisoned.
LockResultIgnoresPoison(p) == "guard"

\* What DOCUMENTS.lock() returns once the mutex is free: Ok(guard), or
\* Err(PoisonError) after a thread panicked while it held the guard.
LockResult(p) == IF p THEN "poisoned" ELSE "guard"

\* mutate: DOCUMENTS.lock(), then get_mut(document_id).and_then(f) starts f.
MutateLock(t) ==
    /\ tpc[t] = "idle"
    /\ CanMutate
    /\ MutexFree(t)
    /\ LockResult(poisoned) = "guard"
    /\ lock' = t
    /\ \E d \in DOMAIN documents : doc_local' = [doc_local EXCEPT ![t] = Some(d)]
    /\ tpc' = [tpc EXCEPT ![t] = "insert_page"]
    /\ UNCHANGED <<build, pure_vars, call_vars, arena_vars, xref_vars, registry_vars, render_vars,
                   page_local, seen, poisoned, outcome, stable>>

\* f: let page = Page::new(objects.new_object_id()); objects.insert(page).
ClosureInsertPage(t) ==
    /\ tpc[t] = "insert_page"
    /\ LET d == doc_local[t][1] IN
          LET page == Page(NewObjectId(documents[d], build)[1]) IN
          /\ documents' = [documents EXCEPT ![d] = Insert(@, page)]
          /\ page_local' = [page_local EXCEPT ![t] = Some(page)]
    /\ tpc' = [tpc EXCEPT ![t] = "insert_tree"]
    /\ UNCHANGED <<build, pure_vars, call_vars, arena_vars, xref_vars, fresh, mutations, render_vars,
                   lock, doc_local, seen, poisoned, outcome, stable>>

\* f: page_tree.add_child(page); objects.insert(page_tree); f returns.
ClosureInsertTree(t) ==
    /\ tpc[t] = "insert_tree"
    /\ LET d == doc_local[t][1] IN
       \E tree \in ByType(documents[d], "Pages") :
          documents' = [documents EXCEPT
                           ![d] = Insert(@, AddChild(tree, page_local[t][1])[1])]
    /\ page_local' = [page_local EXCEPT ![t] = None]
    /\ tpc' = [tpc EXCEPT ![t] = "unlock"]
    /\ UNCHANGED <<build, pure_vars, call_vars, arena_vars, xref_vars, fresh, mutations, render_vars,
                   lock, doc_local, seen, poisoned, outcome, stable>>

\* mutate returns: the guard is dropped.
MutateUnlock(t) ==
    /\ tpc[t] = "unlock"
    /\ lock' = IF lock = t THEN 0 ELSE lock
    /\ stable' = documents
    /\ doc_local' = [doc_local EXCEPT ![t] = None]
    /\ tpc' = [tpc EXCEPT ![t] = "idle"]
    /\ mutations' = mutations + 1
    /\ fresh' = fresh \ {doc_local[t][1]}
    /\ outcome' = [outcome EXCEPT ![t] = "ok"]
    /\ UNCHANGED <<build, pure_vars, call_vars, arena_vars, xref_vars, documents, render_vars,
                   page_local, seen, poisoned>>

\* f panics at page_tree().unwrap() or at its assert!, after its first insert:
\* the guard is dropped while the thread unwinds, which poisons the mutex.
ClosurePanic(t) ==
    /\ tpc[t] = "insert_tree"
    /\ lock' = IF lock = t THEN 0 ELSE lock
    /\ poisoned' = TRUE
    /\ doc_local' = [doc_local EXCEPT ![t] = None]
    /\ page_local' = [page_local EXCEPT ![t] = None]
    /\ tpc' = [tpc EXCEPT ![t] = "panicked"]
    /\ outcome' = [outcome EXCEPT ![t] = "panic"]
    /\ UNCHANGED <<build, pure_vars, call_vars, arena_vars, xref_vars, registry_vars, render_vars,
                   seen, stable>>

\* mutate on a poisoned mutex: lock() is Err, map_err and ? return it.
MutatePoisoned(t) ==
    /\ tpc[t] = "idle"
    /\ MutexFree(t)
    /\ LockResult(poisoned) = "poisoned"
    /\ outcome' = [outcome EXCEPT ![t] = "err_poisoned"]
    /\ UNCHANGED <<build, pure_vars, call_vars, arena_vars, xref_vars, registry_vars, render_vars,
                   lock, tpc, page_local, doc_local, seen, poisoned, stable>>

\* get, get_object, get_document and register_document on a poisoned mutex:
\* lock().unwrap() panics with the PoisonError before any read or write.
LookupPoisoned(t) ==
    /\ tpc[t] = "idle"
    /\ MutexFree(t)
    /\ LockResult(poisoned) = "poisoned"
    /\ tpc' = [tpc EXCEPT ![t] = "panicked"]
    /\ outcome' = [outcome EXCEPT ![t] = "panic"]
    /\ UNCHANGED <<build, pure_vars, call_vars, arena_vars, xref_vars, registry_vars, render_vars,
                   lock, page_local, doc_local, seen, poisoned, stable>>

\* A lookup: DOCUMENTS.lock().unwrap().get(document_id) clones the arena
\* under the guard, and the lookup answers from the clone.
Lookup(t, op, objects, value) ==
    /\ tpc[t] = "idle"
    /\ MutexFree(t)
    /\ LockResult(poisoned) = "guard"
    /\ seen' = Some([thread |-> t, op |-> op, objects |-> objects, value |-> value])
    /\ outcome' = [outcome EXCEPT ![t] = "ok"]
    /\ UNCHANGED <<build, pure_vars, call_vars, arena_vars, xref_vars, registry_vars, render_vars,
                   lock, tpc, page_local, doc_local, poisoned, stable>>

\* documents::get.
Get(t) ==
    \E d \in DOMAIN documents : Lookup(t, "get", documents[d], Some(documents[d]))

\* documents::get_object.
GetObject(t) ==
    \E d \in DOMAIN documents :
    \E id \in ObjectsKeys(documents[d]) :
        Lookup(t, "get_object", documents[d], ObjectsGet(documents[d], id))

\* documents::get_document: the first Document of by_type.
GetDocument(t) ==
    \E d \in DOMAIN documents :
    \E document \in ByType(documents[d], "Document") :
        Lookup(t, "get_document", documents[d], Some(document))

\* One document is registered before the threads start.
TInit ==
    /\ build = "release" /\ ArenaIdle /\ XrefIdle /\ RenderIdle
    /\ documents = [d \in {0} |-> RegisterDocumentObjects(d)]
    /\ fresh = {0} /\ mutations = 0
    /\ lock = 0 /\ tpc = [t \in Threads |-> "idle"]
    /\ page_local = [t \in Threads |-> None] /\ seen = None
    /\ doc_local = [t \in Threads |-> None]
    /\ poisoned = FALSE /\ outcome = [t \in Threads |-> "none"]
    /\ stable = documents
    /\ reply = None /\ id_local = [t \in Threads |-> None] /\ handles = <<0>>
    /\ PureIdle
TNext ==
    \E t \in Threads :
        \/ MutateLock(t)
        \/ ClosureInsertPage(t)
        \/ ClosureInsertTree(t)
        \/ MutateUnlock(t)
        \/ ClosurePanic(t)
        \/ MutatePoisoned(t)
        \/ LookupPoisoned(t)
        \/ Get(t)
        \/ GetObject(t)
        \/ GetDocument(t)
SpecThreads == TInit /\ [][TNext]_vars

\* C10: while a mutate closure makes its inserts, every lookup on any thread
\* reads the arena as it was before the closure started or as it is after
\* the closure returned, never with only some of the closure's inserts: what
\* a lookup reads is the registry as of the last time the mutex was free.
C10_NoPartialMutation ==
    [][\A d \in DOMAIN documents :
          (seen' # seen /\ seen' # None) => seen'[1].objects = stable'[d]]_vars

\* A closure has made its first insert and not its second, and the last
\* lookup, by another thread, read the arena without it.
C10_Witness ==
    \E t \in Threads, d \in DOMAIN documents :
        /\ tpc[t] = "insert_tree"
        /\ documents[d] # stable[d]
        /\ seen # None
        /\ seen[1].thread # t
        /\ seen[1].objects = stable[d]

\* ======================================================================
\* SpecLookups: one caller building documents and calling the lookups and
\* mutate with any handle, registered or not.
\* ======================================================================

\* A get that makes up an empty arena for a handle it does not know.
DocumentsGetOrNew(docs, document_id) ==
    IF document_id \in DOMAIN docs THEN Some(docs[document_id]) ELSE Some(ObjectsNew)

\* Documents::get and Documents::get_mut: self.documents.get(&document_id).
DocumentsGet(docs, document_id) ==
    IF document_id \in DOMAIN docs THEN Some(docs[document_id]) ELSE None

\* .values().find_map(..) and by_type(..).first(): the first object of a
\* type in the HashMap's iteration order, any of them; None when there is none.
Firsts(o, type) ==
    IF ByType(o, type) = {} THEN {None} ELSE {Some(x) : x \in ByType(o, type)}

\* What a registry call handed back: err is a returned Err, ran tells
\* whether mutate invoked its closure.
Reply(op, handle, value, ran) ==
    Some([op |-> op, handle |-> handle, err |-> FALSE, value |-> value, ran |-> ran])

Replied(r) ==
    /\ reply' = r
    /\ UNCHANGED <<build, pure_vars, register_vars, arena_vars, xref_vars, registry_vars, render_vars, thread_vars>>

\* documents::get.
CallGet(d) == Replied(Reply("get", d, DocumentsGet(documents, d), FALSE))

\* documents::get_object.
CallGetObject(d) ==
    \E id \in {ObjectIdNew(n, 0) : n \in 0..2} :
        LET objects == DocumentsGet(documents, d) IN
        Replied(Reply("get_object", d,
                      IF objects # None THEN ObjectsGet(objects[1], id) ELSE None, FALSE))

\* The lookups of the first object of a type: documents::get_document,
\* Catalog::get_catalog, DocInfo::get_doc_info, Pages::get_page_tree.
CallGetFirst(d, op, type) ==
    LET objects == DocumentsGet(documents, d) IN
    \E value \in (IF objects # None THEN Firsts(objects[1], type) ELSE {None}) :
        Replied(Reply(op, d, value, FALSE))
CallGetDocument(d) == CallGetFirst(d, "get_document", "Document")
CallGetCatalog(d) == CallGetFirst(d, "get_catalog", "Catalog")
CallGetDocInfo(d) == CallGetFirst(d, "get_doc_info", "DocInfo")
CallGetPageTree(d) == CallGetFirst(d, "get_page_tree", "Pages")

\* documents::mutate with the closure of test_mutate:
\* Ok(docs_guard.get_mut(document_id).and_then(f)).
CallMutate(d) ==
    LET objects == DocumentsGet(documents, d) IN
    IF objects # None
    THEN LET object == CatalogNew(NewObjectId(objects[1], build)[1]) IN
         /\ CanMutate
         /\ documents' = [dd \in DOMAIN documents |->
                             IF dd = d THEN Insert(objects[1], object) ELSE documents[dd]]
         /\ fresh' = fresh \ {d}
         /\ mutations' = mutations + 1
         /\ reply' = Reply("mutate", d, InsertReturn(objects[1], object), TRUE)
         /\ UNCHANGED <<build, pure_vars, register_vars, arena_vars, xref_vars, render_vars, thread_vars>>
    ELSE Replied(Reply("mutate", d, None, FALSE))

LNext ==
    \/ RegisterDocument
    \/ MutateInsertDocInfo
    \/ MutateAddPage
    \/ \E d \in DocumentIds :
          \/ CallGet(d)
          \/ CallGetObject(d)
          \/ CallGetDocument(d)
          \/ CallGetCatalog(d)
          \/ CallGetDocInfo(d)
          \/ CallGetPageTree(d)
          \/ CallMutate(d)
SpecLookups == Init /\ [][LNext]_vars

\* C11: for a handle that is not registered, get, get_object, get_document,
\* get_catalog, get_doc_info and get_page_tree return an absent result and
\* no error, mutate returns Ok(None) without running its closure, and the
\* registry is the same after the call as before it.
C11_AbsentForUnknownHandle ==
    [][(reply' # reply /\ reply'[1].handle \notin DOMAIN documents)
          => /\ ~reply'[1].err
             /\ reply'[1].value = None
             /\ ~reply'[1].ran
             /\ documents' = documents]_vars

\* mutate was called with an unregistered handle while another document,
\* already mutated, is registered.
C11_Witness ==
    /\ reply # None
    /\ reply[1].op = "mutate"
    /\ reply[1].handle \notin DOMAIN documents
    /\ documents # <<>>
    /\ mutations > 0

RegisterLock(t) ==
    /\ tpc[t] = "idle"
    /\ MutexFree(t)
    /\ LockResult(poisoned) = "guard"
    /\ lock' = t
    /\ tpc' = [tpc EXCEPT ![t] = "new_document_id"]
    /\ UNCHANGED <<build, pure_vars, call_vars, arena_vars, xref_vars, registry_vars, render_vars,
                   page_local, doc_local, seen, poisoned, outcome, stable>>

\* Documents::new_document_id: the loop ends with an id that is not a key;
\* with every id in use it never ends.
NewDocumentId(t) ==
    /\ tpc[t] = "new_document_id"
    /\ \E new_id \in NewDocumentIds(documents) :
          id_local' = [id_local EXCEPT ![t] = Some(new_id)]
    /\ tpc' = [tpc EXCEPT ![t] = "register_insert"]
    /\ UNCHANGED <<build, pure_vars, reply, handles, arena_vars, xref_vars, registry_vars, render_vars,
                   lock, page_local, doc_local, seen, poisoned, outcome, stable>>

\* Documents::register_document: self.documents.insert(new_id, objects),
\* return new_id, and the guard is dropped.
RegisterInsert(t) ==
    /\ tpc[t] = "register_insert"
    /\ LET new_id == id_local[t][1] IN
          /\ documents' = [d \in DOMAIN documents \cup {new_id} |->
                              IF d = new_id THEN RegisterDocumentObjects(new_id)
                              ELSE documents[d]]
          /\ fresh' = fresh \cup {new_id}
          /\ handles' = Append(handles, new_id)
    /\ id_local' = [id_local EXCEPT ![t] = None]
    /\ lock' = IF lock = t THEN 0 ELSE lock
    /\ stable' = documents'
    /\ tpc' = [tpc EXCEPT ![t] = "idle"]
    /\ outcome' = [outcome EXCEPT ![t] = "ok"]
    /\ UNCHANGED <<build, pure_vars, reply, arena_vars, xref_vars, mutations, render_vars,
                   page_local, doc_local, seen, poisoned>>

RNext ==
    \E t \in Threads :
        \/ RegisterLock(t)
        \/ NewDocumentId(t)
        \/ RegisterInsert(t)
        \/ MutateLock(t)
        \/ ClosureInsertPage(t)
        \/ ClosureInsertTree(t)
        \/ MutateUnlock(t)
SpecRegistering == Init /\ [][RNext]_vars

\* C13: register_document never returns a handle that is registered: the
\* handles returned so far, by whatever threads, are pairwise distinct, and a
\* registration leaves the arena of every document registered before it as
\* it was.
C13_DistinctHandles ==
    /\ [](\A i, j \in 1..Len(handles) : handles[i] = handles[j] => i = j)
    /\ [][handles' # handles =>
             /\ handles'[Len(handles')] \notin DOMAIN documents
             /\ \A d \in DOMAIN documents : documents'[d] = documents[d]]_vars

\* Two documents are registered, the first one mutated before the second
\* registration returned.
C13_Witness ==
    /\ Len(handles) = 2
    /\ \E d \in DOMAIN documents : ObjectsLen(documents[d]) > 3
    /\ \E d \in DOMAIN documents : d \in fresh

\* ======================================================================
\* SpecAddChild: add_child called again and again on one page-tree node,
\* with objects of every variant (pages.rs test_add_child).
\* ======================================================================

\* Everything but the harness variables, at rest.
ModelIdle ==
    /\ ThreadsIdle /\ CallsIdle /\ build = "release" /\ ArenaIdle /\ XrefIdle
    /\ RegistryIdle /\ RenderIdle
model_vars == <<build, call_vars, arena_vars, xref_vars, registry_vars, render_vars,
                thread_vars>>

\* The objects handed to add_child: one or two of each variant.
ChildIds == {ObjectIdNew(3, 0), ObjectIdNew(3, 1), ObjectIdNew(7, 0)}
Children ==
    {Document(0)} \cup {DocInfo(id) : id \in ChildIds}
        \cup {CatalogNew(id) : id \in ChildIds}
        \cup {PagesNew(id) : id \in ChildIds} \cup {Page(id) : id \in ChildIds}

\* pages.add_child(child): the node changes only when the call is Ok.
AddChildCall ==
    /\ Len(args.kids) < MaxKids
    /\ \E child \in Children :
          LET r == AddChild(args, child) IN
          /\ args' = IF r # None THEN r[1] ELSE args
          /\ ret' = Some([child |-> child, before |-> args, ok |-> r # None])
    /\ UNCHANGED model_vars

CInit == ModelIdle /\ args \in {PagesNew(ObjectIdNew(1, g)) : g \in 0..MaxGen} /\ ret = None
CNext == AddChildCall
SpecAddChild == CInit /\ [][CNext]_vars

\* C14: add_child with a Page or Pages object returns Ok and appends that
\* object's id at the end of the kid list, the earlier kids keeping their
\* places; with any other variant it returns an error and leaves the kid
\* list and the count as they were.
C14_AddChild ==
    ret # None =>
        LET child == ret[1].child
            before == ret[1].before
        IN  IF child.type \in {"Pages", "Page"}
            THEN /\ ret[1].ok
                 /\ args.kids = Append(before.kids, child.id)
            ELSE /\ ~ret[1].ok
                 /\ args.kids = before.kids
                 /\ args.count = before.count

\* A node that already has a Page and a Pages kid has just refused a Catalog.
C14_Witness ==
    /\ ret # None
    /\ ret[1].child.type = "Catalog"
    /\ ~ret[1].ok
    /\ Len(args.kids) = 2
    /\ args.kids[1] # args.kids[2]

\* ======================================================================
\* PdfObject rendering.  The output is the sequence of pieces written, one
\* per write_all_count call: a literal, a name or a number.
\* ======================================================================

Lit(s) == [t |-> "lit", lit |-> s, key |-> <<>>, val |-> 0]
NameTok(k) == [t |-> "name", lit |-> "/", key |-> k, val |-> 0]
NumTok(n) == [t |-> "number", lit |-> "", key |-> <<>>, val |-> n]

\* The PdfObject values of the harnesses: numbers, null and true.
Number(n) == [kind |-> "Number", n |-> n]
Null == [kind |-> "Null", n |-> 0]
Bool == [kind |-> "Bool", n |-> 1]

\* PdfObject::render for the scalar variants.
RenderScalar(o) ==
    CASE o.kind = "Number" -> <<NumTok(o.n)>>
      [] o.kind = "Null" -> <<Lit("null")>>
      [] o.kind = "Bool" -> <<Lit("true")>>

\* Ord for String: byte by byte, a proper prefix first.  Keys are the
\* sequences of their bytes.
RECURSIVE KeyLt(_, _)
KeyLt(a, b) ==
    IF b = <<>> THEN FALSE
    ELSE IF a = <<>> THEN TRUE
    ELSE IF a[1] # b[1] THEN a[1] < b[1]
    ELSE KeyLt(Tail(a), Tail(b))

\* A sort that leaves the entries as the map handed them out.
SortByKeyNot(entries) == entries

\* entries.sort_by_key(|&(k, _)| k): a stable sort, here by insertion.
RECURSIVE SortInsert(_, _)
SortInsert(sorted, e) ==
    IF sorted = <<>> THEN <<e>>
    ELSE IF KeyLt(e[1], sorted[1][1]) THEN <<e>> \o sorted
    ELSE <<sorted[1]>> \o SortInsert(Tail(sorted), e)
RECURSIVE SortFrom(_, _)
SortFrom(sorted, rest) ==
    IF rest = <<>> THEN sorted ELSE SortFrom(SortInsert(sorted, rest[1]), Tail(rest))
SortByKey(entries) == SortFrom(<<>>, entries)

\* render_dictionary, from the entries in the order d.iter() hands them out.
RECURSIVE RenderEntries(_, _, _)
RenderEntries(entries, i, len) ==
    IF i > len THEN <<>>
    ELSE <<NameTok(entries[i][1]), Lit(" ")>> \o RenderScalar(entries[i][2])
            \o (IF i - 1 < len - 1 THEN <<Lit(" ")>> ELSE <<>>)
            \o RenderEntries(entries, i + 1, len)
RenderDictionary(iter) ==
    LET entries == SortByKey(iter)
    IN  <<Lit("<< ")>> \o RenderEntries(entries, 1, Len(entries)) \o <<Lit(" >>")>>

\* ======================================================================
\* SpecDictionary: a HashMap filled in some insertion order and rendered,
\* twice (pdf_object/mod.rs test_dictionary).
\* ======================================================================

\* Keys "A", "AB", "B", "a" as bytes, and the values.
DictKeys == {<<65>>, <<65, 66>>, <<66>>, <<97>>}
DictValues == {Number(1), Null}

\* The sequences without repetition over a set, up to a length.
Orders(set) ==
    {q \in UNION {[1..n -> set] : n \in 0..MaxEntries} :
        /\ Len(q) = Cardinality(set)
        /\ \A i, j \in 1..Len(q) : q[i] = q[j] => i = j}

\* HashMap::insert, one entry after the other: the map as a function.
RECURSIVE HashMapFrom(_)
HashMapFrom(inserted) ==
    IF inserted = <<>> THEN [k \in {} |-> Null]
    ELSE LET m == HashMapFrom(SubSeq(inserted, 1, Len(inserted) - 1))
             e == inserted[Len(inserted)]
         IN  [k \in DOMAIN m \cup {e[1]} |-> IF k = e[1] THEN e[2] ELSE m[k]]

\* d.iter(): the entries in an order of the HashMap's choosing.
Iterations(d) == {[i \in 1..Len(q) |-> <<q[i], d[q[i]]>>] : q \in Orders(DOMAIN d)}

\* The same entries inserted in two orders, each map rendered.
DictionaryRender ==
    /\ Len(ret) < 2
    /\ \E iter \in Iterations(HashMapFrom(args[Len(ret) + 1])) :
          ret' = Append(ret, RenderDictionary(iter))
    /\ UNCHANGED <<args, model_vars>>

DInit ==
    /\ ModelIdle
    /\ ret = <<>>
    /\ \E keys \in SUBSET DictKeys :
          /\ Cardinality(keys) <= MaxEntries
          /\ \E d \in [keys -> DictValues], q1 \in Orders(keys), q2 \in Orders(keys) :
                args = <<[i \in 1..Len(q1) |-> <<q1[i], d[q1[i]]>>],
                         [i \in 1..Len(q2) |-> <<q2[i], d[q2[i]]>>]>>
DNext == DictionaryRender
SpecDictionary == DInit /\ [][DNext]_vars

\* The names of an output, in the order written.
NamesOf(out) == SelectSeq(out, LAMBDA tok : tok.t = "name")

\* C15: the rendering of a dictionary depends on its entries alone: the
\* same entries inserted in another order render the same; the keys come in
\* ascending byte order; the output is '<< ', the entries as name, space,
\* value with one space between entries, and ' >>'; the empty dictionary is
\* '<< ' followed by ' >>'.
C15_DictionaryOrder ==
    \A n \in 1..Len(ret) :
        LET out == ret[n]
            names == NamesOf(out)
            count == Len(args[1])
        IN  /\ out = ret[1]
            /\ Len(names) = count
            /\ {names[i].key : i \in 1..count} = {args[1][i][1] : i \in 1..count}
            /\ \A i \in 1..(count - 1) : KeyLt(names[i].key, names[i + 1].key)
            /\ out[1] = Lit("<< ") /\ out[Len(out)] = Lit(" >>")
            /\ Len(out) = IF count = 0 THEN 2 ELSE 4 * count + 1
            /\ \A i \in 1..count :
                  /\ out[4 * i - 2].t = "name"
                  /\ out[4 * i - 1] = Lit(" ")
                  /\ \E e \in {args[1][j] : j \in 1..count} :
                        e[1] = out[4 * i - 2].key /\ <<out[4 * i]>> = RenderScalar(e[2])
                  /\ i < count => out[4 * i + 1] = Lit(" ")

\* Three entries inserted as "a", "B", "AB" and as "B", "AB", "a", both
\* maps rendered.
C15_Witness ==
    /\ Len(ret) = 2
    /\ Len(args[1]) = 3
    /\ args[1][1][1] = <<97>> /\ args[1][2][1] = <<66>> /\ args[1][3][1] = <<65, 66>>
    /\ args[2][3][1] = <<97>>

\* ======================================================================
\* SpecArray: arrays of scalars rendered (pdf_object/mod.rs test_array).
\* ======================================================================

\* The bytes of one piece written.
TokBytes(tok) ==
    CASE tok.t = "number" -> Digits(tok.val)
      [] tok.t = "name" -> 1 + Len(tok.key)
      [] tok = Lit("null") \/ tok = Lit("true") -> 4
      [] tok = Lit("[") \/ tok = Lit("]") \/ tok = Lit(" ") -> 1
      [] OTHER -> 3
RECURSIVE BytesOf(_)
BytesOf(out) == IF out = <<>> THEN 0 ELSE TokBytes(Head(out)) + BytesOf(Tail(out))

\* render_array: the loop from element i on, with the pieces written and
\* the count so far.  The space follows an element that is unequal to
\* a.last().
RECURSIVE RenderArrayFrom(_, _, _, _)
RenderArrayFrom(a, i, out, count) ==
    IF i > Len(a) THEN [out |-> out \o <<Lit("]")>>, count |-> count + 1]
    ELSE LET o == RenderScalar(a[i])
             sep == IF a[i] # a[Len(a)] THEN <<Lit(" ")>> ELSE <<>>
         IN  RenderArrayFrom(a, i + 1, out \o o \o sep,
                             count + BytesOf(o) + BytesOf(sep))
RenderArray(a) == RenderArrayFrom(a, 1, <<Lit("[")>>, 1)

ArrayValues == {Number(1), Number(2), Number(12), Null}

\* PdfObject::Array(a).render(&mut bytes).
ArrayRender ==
    /\ ret = None
    /\ ret' = Some(RenderArray(args))
    /\ UNCHANGED <<args, model_vars>>

YInit ==
    /\ ModelIdle /\ ret = None
    /\ args \in UNION {[1..n -> ArrayValues] : n \in 0..MaxElems}
YNext == ArrayRender
SpecArray == YInit /\ [][YNext]_vars

\* C16: an array of n values renders as '[', the n elements in order with
\* one space between neighbours and none after the last, and ']', also
\* when a value occurs at more than one position; the count returned is the
\* number of bytes written.
C16_ArraySeparators ==
    ret # None =>
        LET out == ret[1].out
            n == Len(args)
        IN  /\ Len(out) = IF n = 0 THEN 2 ELSE 2 * n + 1
            /\ out[1] = Lit("[") /\ out[Len(out)] = Lit("]")
            /\ \A i \in 1..n :
                  /\ <<out[2 * i]>> = RenderScalar(args[i])
                  /\ i < n => out[2 * i + 1] = Lit(" ")
            /\ ret[1].count = BytesOf(out)

\* ---------------------------------------------------------------------
\* rust_decimal::Decimal as the geometry code uses it: a sign, a mantissa
\* of at most 96 bits written as its decimal digits (most significant
\* first, <<>> for zero) and a scale of 0..MAX_SCALE decimal places.
\* helpers::round and the Unit conversions are translated on top of it.
\* ---------------------------------------------------------------------
MAX_SCALE == 28
DECIMAL_PLACES == 16

\* Decimal::MAX's mantissa, 2^96 - 1 = 79228162514264337593543950335.
MaxMantissa ==
    <<7,9,2,2,8, 1,6,2,5,1, 4,2,6,4,3, 3,7,5,9,3, 5,4,3,9,5, 0,3,3,5>>

Max(a, b) == IF a >= b THEN a ELSE b
Min(a, b) == IF a <= b THEN a ELSE b
\* The element of a one-element set.  Operands and results are taken
\* through it where a value has to be worked out once, before its digits
\* are walked over.
Only(set) == CHOOSE r \in set : TRUE
Zeros(n) == [i \in 1..n |-> 0]
StripZeros(ds) ==
    LET nz == {i \in 1..Len(ds) : ds[i] # 0}
    IN  IF nz = {} THEN <<>>
        ELSE SubSeq(ds, CHOOSE i \in nz : \A j \in nz : i <= j, Len(ds))
RECURSIVE DigitsOf(_)
DigitsOf(n) == IF n = 0 THEN <<>> ELSE DigitsOf(n \div 10) \o <<n % 10>>
RECURSIVE IntOf(_)
IntOf(ds) ==
    IF ds = <<>> THEN 0 ELSE 10 * IntOf(SubSeq(ds, 1, Len(ds) - 1)) + ds[Len(ds)]
Pad(ds, n) == Zeros(n - Len(ds)) \o ds

\* Comparison of two mantissas without leading zeros: -1, 0 or 1.
LexCmp(a, b) ==
    LET diff == {i \in 1..Len(a) : a[i] # b[i]}
        i == CHOOSE i \in diff : \A j \in diff : i <= j
    IN  IF diff = {} THEN 0 ELSE IF a[i] < b[i] THEN -1 ELSE 1
CmpDigits(a, b) ==
    IF Len(a) < Len(b) THEN -1
    ELSE IF Len(a) > Len(b) THEN 1
    ELSE LexCmp(a, b)
Fits(ds) == CmpDigits(ds, MaxMantissa) <= 0

\* The arithmetic works on words of four digits, as the library works on
\* words of 32 bits: a mantissa as its words, and back.
Words(ds) ==
    LET n == (Len(ds) + 3) \div 4
        p == Pad(ds, 4 * n)
    IN  [i \in 1..n |-> 1000 * p[4 * i - 3] + 100 * p[4 * i - 2]
                          + 10 * p[4 * i - 1] + p[4 * i]]
Unwords(ws) ==
    StripZeros([j \in 1..(4 * Len(ws)) |->
        (ws[(j + 3) \div 4] \div <<1000, 100, 10, 1>>[((j - 1) % 4) + 1]) % 10])
PadWords(ws, n) == Zeros(n - Len(ws)) \o ws

RECURSIVE AddFrom(_, _, _, _)
AddFrom(a, b, i, carry) ==
    IF i = 0 THEN <<carry>>
    ELSE LET s == a[i] + b[i] + carry
         IN  AddFrom(a, b, i - 1, s \div 10000) \o <<s % 10000>>
AddDigits(a, b) ==
    LET Sum(x, y, n) == AddFrom(PadWords(x, n), PadWords(y, n), n, 0)
    IN  Unwords(Only({Sum(x, y, Max(Len(x), Len(y))) :
                          x \in {Words(a)}, y \in {Words(b)}}))
RECURSIVE SubFrom(_, _, _, _)
SubFrom(a, b, i, borrow) ==
    IF i = 0 THEN <<>>
    ELSE LET s == a[i] - b[i] - borrow
         IN  SubFrom(a, b, i - 1, IF s < 0 THEN 1 ELSE 0)
                 \o <<IF s < 0 THEN s + 10000 ELSE s>>
\* a - b for a >= b.
SubDigits(a, b) ==
    Unwords(Only({SubFrom(x, PadWords(y, Len(x)), Len(x), 0) :
                      x \in {Words(a)}, y \in {Words(b)}}))
RECURSIVE MulFrom(_, _, _, _)
MulFrom(a, k, i, carry) ==
    IF i = 0 THEN <<carry>>
    ELSE LET p == a[i] * k + carry
         IN  MulFrom(a, k, i - 1, p \div 10000) \o <<p % 10000>>
\* a * k for a machine-size k.
MulSmall(a, k) ==
    Unwords(Only({MulFrom(x, k, Len(x), 0) : x \in {Words(a)}}))
\* Long division of a by a machine-size k: quotient and remainder.
RECURSIVE DivFrom(_, _, _, _, _)
DivFrom(a, k, i, rem, q) ==
    IF i > Len(a) THEN [q |-> Unwords(q), r |-> rem]
    ELSE LET cur == rem * 10000 + a[i]
         IN  DivFrom(a, k, i + 1, cur % k, q \o <<cur \div k>>)
DivSmall(a, k) == Only({DivFrom(x, k, 1, 0, <<>>) : x \in {Words(a)}})

\* The mantissa with its last n digits dropped and the result rounded:
\* "away" is MidpointAwayFromZero, "even" is the banker's rounding the
\* arithmetic uses when a result has to lose digits.
RoundDrop(m, n, strategy) ==
    IF n = 0 THEN m
    ELSE LET all == Pad(m, Max(Len(m), n))
             kept == StripZeros(SubSeq(all, 1, Len(all) - n))
             dropped == SubSeq(all, Len(all) - n + 1, Len(all))
             tie == dropped[1] = 5 /\ \A i \in 2..n : dropped[i] = 0
             odd == kept # <<>> /\ kept[Len(kept)] % 2 = 1
             up == IF tie THEN strategy = "away" \/ odd ELSE dropped[1] >= 5
         IN  IF up THEN AddDigits(kept, <<1>>) ELSE kept

\* Decimal::new(num, scale) for num >= 0, and the sign change.
Dec(num, scale) == [neg |-> FALSE, m |-> DigitsOf(num), scale |-> scale]
Neg(d) == [d EXCEPT !.neg = (d.m # <<>> /\ ~d.neg)]

\* The least number of digits a result has to lose to fit the 96 bits and
\* the MAX_SCALE places.
RECURSIVE Excess(_, _, _)
Excess(m, scale, n) ==
    IF scale - n <= MAX_SCALE /\ Fits(RoundDrop(m, n, "even")) THEN n
    ELSE Excess(m, scale, n + 1)
Fit(neg, m, scale) ==
    LET Lose(n) ==
            LET r == RoundDrop(m, n, "even")
            IN  [neg |-> neg /\ r # <<>>, m |-> r, scale |-> scale - n]
    IN  Only({Lose(n) : n \in {Excess(m, scale, Max(0, scale - MAX_SCALE))}})

\* Decimal::normalize: trailing zeros of the fraction removed, zero made
\* positive with scale 0.
Normalize(d) ==
    LET t == {n \in 0..Min(d.scale, Len(d.m)) :
                  \A i \in 1..n : d.m[Len(d.m) + 1 - i] = 0}
        n == CHOOSE n \in t : \A j \in t : j <= n
    IN  IF d.m = <<>> THEN [neg |-> FALSE, m |-> <<>>, scale |-> 0]
        ELSE [d EXCEPT !.m = SubSeq(d.m, 1, Len(d.m) - n), !.scale = d.scale - n]
\* Decimal's PartialEq compares the numbers, not the representations.
DecEq(a, b) == Normalize(a) = Normalize(b)

\* Decimal::round_dp_with_strategy(dp, MidpointAwayFromZero).
RoundDp(d, dp) ==
    IF dp >= d.scale THEN d
    ELSE Only({[neg |-> d.neg /\ r # <<>>, m |-> r, scale |-> dp] :
                   r \in {RoundDrop(d.m, d.scale - dp, "away")}})
\* Decimal::rescale(scale): zeros appended, or digits dropped half up.
Rescale(d, scale) ==
    IF scale >= d.scale
    THEN [d EXCEPT !.m = IF d.m = <<>> THEN <<>> ELSE d.m \o Zeros(scale - d.scale),
                   !.scale = scale]
    ELSE RoundDp(d, scale)

\* a + b: both brought to the larger scale, the magnitudes added or
\* subtracted by sign.
Aligned(d, s) == IF d.m = <<>> THEN <<>> ELSE d.m \o Zeros(s - d.scale)
DecAdd(a, b) ==
    LET Sum(neg, m, s) == Only({Fit(neg, r, s) : r \in {m}})
        Add(l, r, s, x, y) ==
            IF l.neg = r.neg THEN Sum(l.neg, AddDigits(x, y), s)
            ELSE IF CmpDigits(x, y) >= 0 THEN Sum(l.neg, SubDigits(x, y), s)
            ELSE Sum(r.neg, SubDigits(y, x), s)
    IN  Only({Add(l, r, Max(l.scale, r.scale),
                  Aligned(l, Max(l.scale, r.scale)),
                  Aligned(r, Max(l.scale, r.scale))) : l \in {a}, r \in {b}})
DecSub(a, b) == DecAdd(a, Neg(b))
\* a * b where b's mantissa is machine-size (every multiplier in the
\* geometry code and in the inputs drawn here is).
DecMul(a, b) ==
    LET Product(l, r) ==
            Only({Fit(l.neg # r.neg, m, l.scale + r.scale) :
                      m \in {MulSmall(l.m, IntOf(r.m))}})
    IN  Only({Product(l, r) : l \in {a}, r \in {b}})
\* a / b where b's mantissa is machine-size and not zero.  Digits are
\* produced while a remainder is left, the scale is below MAX_SCALE and
\* the mantissa fits, and the last digit is rounded by the remainder:
\* DivAt is the quotient with e more digits than the scales give,
\* DivPlaces the greatest e that fits, counted down from e.
DivAt(m, k, e) == DivSmall(IF m = <<>> THEN <<>> ELSE m \o Zeros(e), k)
RECURSIVE DivPlaces(_, _, _)
DivPlaces(m, k, e) ==
    IF e = 0 \/ Fits(DivAt(m, k, e).q) THEN e ELSE DivPlaces(m, k, e - 1)
DecDiv(a, b) ==
    LET Quotient(l, r, k, least, most) ==
            LET e == DivPlaces(l.m, k, Max(least, most))
                d == DivAt(l.m, k, e)
                \* an exact quotient stops at its last digit that is not 0
                exact == Normalize([neg |-> FALSE, m |-> d.q, scale |-> e - least])
                m == IF d.r = 0 THEN exact.m
                     ELSE IF 2 * d.r >= k THEN AddDigits(d.q, <<1>>) ELSE d.q
                places == IF d.r = 0 THEN least + exact.scale ELSE e
            IN  [neg |-> (l.neg # r.neg) /\ m # <<>>, m |-> m,
                 scale |-> l.scale - r.scale + places]
    IN  Only({Quotient(l, r, IntOf(r.m), Max(0, r.scale - l.scale),
                       Min(MAX_SCALE - (l.scale - r.scale),
                           Len(MaxMantissa) + Len(r.m) - Len(l.m))) :
                  l \in {a}, r \in {b}})

\* helpers::round: at most one place is taken off, never below
\* DECIMAL_PLACES places, then the value is normalized.
Round(decimal) ==
    Only({Normalize(r) :
              r \in {RoundDp(d, Max(Max(d.scale, 1) - 1, DECIMAL_PLACES)) :
                         d \in {decimal}}})

\* ---------------------------------------------------------------------
\* geometry::Unit: a Decimal tagged with one of six units.
\* ---------------------------------------------------------------------
UnitTags == {"Cm", "Pixel", "Point", "Inch", "Mil", "Mm"}
Unit(tag, value) == [tag |-> tag, value |-> value]
\* Unit::from(isize): a whole number of points.
UnitFrom(n) == Unit("Point", Dec(n, 0))
decimal_value(u) == u.value

\* How many of a unit make an inch: the divisors of Unit::inch and the
\* factors of cm, pixel, point, mil and mm.
PerInch(tag) ==
    CASE tag = "Cm" -> Dec(254, 2)
      [] tag = "Pixel" -> Dec(96, 0)
      [] tag = "Point" -> Dec(72, 0)
      [] tag = "Mil" -> Dec(1000, 0)
      [] tag = "Mm" -> Dec(254, 1)

inch(u) ==
    IF u.tag = "Inch" THEN u
    ELSE Unit("Inch", DecDiv(u.value, PerInch(u.tag)))
cm(u) == Unit("Cm", DecMul(decimal_value(inch(u)), PerInch("Cm")))
pixel(u) == Unit("Pixel", DecMul(decimal_value(inch(u)), PerInch("Pixel")))
point(u) == Unit("Point", DecMul(decimal_value(inch(u)), PerInch("Point")))
mil(u) == Unit("Mil", DecMul(decimal_value(inch(u)), PerInch("Mil")))
mm(u) == Unit("Mm", DecMul(decimal_value(inch(u)), PerInch("Mm")))

\* The conversion each arm of `match self` in add and sub applies to rhs.
ToTag(u, tag) ==
    CASE tag = "Cm" -> cm(u)
      [] tag = "Pixel" -> pixel(u)
      [] tag = "Point" -> point(u)
      [] tag = "Inch" -> inch(u)
      [] tag = "Mil" -> mil(u)
      [] tag = "Mm" -> mm(u)

\* Unit::real_value: five decimal places, normalized.
real_value(u) == Only({Normalize(real) : real \in {Rescale(decimal_value(u), 5)}})

\* PdfObject::Number of a Decimal.  The value model writes a number that
\* is whole and not negative as that integer.
DecimalNumber(d) ==
    IF d.scale = 0 /\ ~d.neg THEN Number(IntOf(d.m))
    ELSE [kind |-> "Number", n |-> d]
\* From<Unit> for PdfObject.
UnitToPdfObject(value) == DecimalNumber(real_value(point(value)))

\* Add for &Unit.
UnitAdd(self, rhs) ==
    Unit(self.tag, Round(DecAdd(decimal_value(self),
                                decimal_value(ToTag(rhs, self.tag)))))

\* ---------------------------------------------------------------------
\* SpecRect: a rectangle converted to a value and rendered.
\* ---------------------------------------------------------------------
Rect(x, y, width, height) ==
    [origin |-> [x |-> x, y |-> y], size |-> [width |-> width, height |-> height]]
min_x(rect) == rect.origin.x
min_y(rect) == rect.origin.y
max_x(rect) == UnitAdd(rect.origin.x, rect.size.width)
max_y(rect) == UnitAdd(rect.origin.y, rect.size.height)
\* From<Rect> for PdfObject.
RectToPdfObject(value) ==
    <<UnitToPdfObject(min_x(value)), UnitToPdfObject(min_y(value)),
      UnitToPdfObject(max_x(value)), UnitToPdfObject(max_y(value))>>

\* The coordinates drawn: whole points, and one inch, which is 72 points.
RectUnits == {UnitFrom(0), UnitFrom(1), UnitFrom(20), UnitFrom(72),
              Unit("Inch", Dec(1, 0))}
\* The whole number of points such a coordinate stands for.
Points(u) == IF u.tag = "Inch" THEN 72 * IntOf(u.value.m) ELSE IntOf(u.value.m)

\* PdfObject::from(rect).to_string().
RectRender ==
    /\ ret = None
    /\ ret' = Some(RenderArray(RectToPdfObject(args)))
    /\ UNCHANGED <<args, model_vars>>

GInit ==
    /\ ModelIdle /\ ret = None
    /\ \E x, y, width, height \in RectUnits : args = Rect(x, y, width, height)
GNext == RectRender
SpecRect == GInit /\ [][GNext]_vars

\* C17: a rectangle with origin (x, y) and size (w, h) renders as
\* "[x y x+w y+h]": the four numbers in points, in that order, in brackets
\* with one space between neighbours, also when two of them are equal.
C17_RectRender ==
    ret # None =>
        LET x == Points(args.origin.x)
            y == Points(args.origin.y)
            w == Points(args.size.width)
            h == Points(args.size.height)
        IN  ret[1].out = <<Lit("["), NumTok(x), Lit(" "), NumTok(y), Lit(" "),
                           NumTok(x + w), Lit(" "), NumTok(y + h), Lit("]")>>

\* ---------------------------------------------------------------------
\* SpecUnitOps: the four operators on two Units.
\* ---------------------------------------------------------------------
\* Sub for &Unit.
UnitSub(self, rhs) ==
    Unit(self.tag, Round(DecSub(decimal_value(self),
                                decimal_value(ToTag(rhs, self.tag)))))
\* Mul for &Unit: "Only the decimal value is used for the rhs.  The units
\* are stripped."
UnitMulRightTag(self, rhs) ==
    Unit(rhs.tag, Round(DecMul(decimal_value(self), decimal_value(rhs))))
UnitMul(self, rhs) ==
    Unit(self.tag, Round(DecMul(decimal_value(self), decimal_value(rhs))))
\* Div for &Unit, the same way.
UnitDiv(self, rhs) ==
    Unit(self.tag, Round(DecDiv(decimal_value(self), decimal_value(rhs))))

UnitOps == {"+", "-", "*", "/"}
Apply(op, self, rhs) ==
    CASE op = "+" -> UnitAdd(self, rhs)
      [] op = "-" -> UnitSub(self, rhs)
      [] op = "*" -> UnitMul(self, rhs)
      [] op = "/" -> UnitDiv(self, rhs)

\* The operands drawn: one inch in each of the six units (the values of
\* the tests), and values whose conversions do not terminate.
UnitInputs ==
    {Unit("Cm", Dec(254, 2)), Unit("Pixel", Dec(96, 0)), Unit("Point", Dec(72, 0)),
     Unit("Inch", Dec(1, 0)), Unit("Mil", Dec(1000, 0)), Unit("Mm", Dec(254, 1)),
     Unit("Inch", Dec(2, 0)), Unit("Point", Dec(36, 0)), Unit("Point", Dec(1, 0)),
     Unit("Mm", Dec(1, 0))}

\* &self op &rhs.
UnitArith ==
    /\ ret = None
    /\ ret' = Some(Apply(args.op, args.self, args.rhs))
    /\ UNCHANGED <<args, model_vars>>

UInit ==
    /\ ModelIdle /\ ret = None
    /\ \E op \in UnitOps : \E self, rhs \in UnitInputs :
           args = [op |-> op, self |-> self, rhs |-> rhs]
UNext == UnitArith
SpecUnitOps == UInit /\ [][UNext]_vars

\* What the operation gives when both operands are first converted to
\* inches: the value in inches (a product with, or a quotient by, rhs in
\* inches is taken with rhs's value and its number per inch), and that
\* value converted back to the left operand's unit.
InInches(op, self, rhs) ==
    LET l == decimal_value(inch(self))
    IN  CASE op = "+" -> DecAdd(l, decimal_value(inch(rhs)))
          [] op = "-" -> DecSub(l, decimal_value(inch(rhs)))
          [] op = "*" -> IF rhs.tag = "Inch" THEN DecMul(l, rhs.value)
                         ELSE DecDiv(DecMul(l, rhs.value), PerInch(rhs.tag))
          [] op = "/" -> IF rhs.tag = "Inch" THEN DecDiv(l, rhs.value)
                         ELSE DecMul(DecDiv(l, rhs.value), PerInch(rhs.tag))
ViaInches(op, self, rhs) == ToTag(Unit("Inch", InInches(op, self, rhs)), self.tag)
\* Two units agree when they carry the same tag and the same value to the
\* five decimal places that reach the document.
Agree(a, b) == a.tag = b.tag /\ real_value(a) = real_value(b)

OneInch ==
    {Unit("Cm", Dec(254, 2)), Unit("Pixel", Dec(96, 0)), Unit("Point", Dec(72, 0)),
     Unit("Inch", Dec(1, 0)), Unit("Mil", Dec(1000, 0)), Unit("Mm", Dec(254, 1))}
\* The values drawn: those, and small and large values of every unit.
TripInputs ==
    OneInch \cup {Unit(tag, Dec(n, 0)) : tag \in UnitTags, n \in {1, 3, 300}}

\* v.<to>().<tag of v>(), and helpers::round of its decimal value.
RoundTrip ==
    /\ ret = None
    /\ LET there == ToTag(args.v, args.to)
           back == ToTag(there, args.v.tag)
       IN  ret' = Some([there |-> there, back |-> back,
                        rounded |-> Round(decimal_value(back))])
    /\ UNCHANGED <<args, model_vars>>

BInit ==
    /\ ModelIdle /\ ret = None
    /\ \E v \in TripInputs, to \in UnitTags : args = [v |-> v, to |-> to]
BNext == RoundTrip
SpecRoundTrip == BInit /\ [][BNext]_vars

\* C19: a value converted from its unit to any other and back, and then
\* rounded to the bounded scale, is the value started from; and one inch
\* converts exactly between its six spellings.
C19_RoundTrip ==
    ret # None =>
        /\ DecEq(ret[1].rounded, decimal_value(args.v))
        /\ args.v \in OneInch =>
               \E one \in OneInch :
                   /\ one.tag = args.to
                   /\ DecEq(decimal_value(ret[1].there), decimal_value(one))

\* ---------------------------------------------------------------------
\* SpecRenderTwice: a caller that registers, mutates and writes documents
\* into a Vec<u8>, whose writes do not fail, and keeps the bytes of each
\* write that returned Ok.  ret holds the last write kept and, before it,
\* the one before when that was of the same arena, unmutated.
\* ---------------------------------------------------------------------
Unfailing == first_fail' = None

\* The arena this render reads is the one the last kept render read.  Each
\* lookup of the render clones the registry's HashMap and iterates the
\* clone: a clone keeps the table's layout and hasher, so values() and
\* by_type() visit an unmutated arena in the order they did before, and the
\* first DocInfo, Catalog and Pages are the ones found then.
SameArena ==
    /\ ret # <<>>
    /\ ret[Len(ret)].document_id = doc[1].document_id
    /\ ret[Len(ret)].objects = RenderObjects

AgainWrite == DocumentWrite /\ Unfailing
AgainDocInfo ==
    /\ RenderDocInfo /\ Unfailing
    /\ SameArena /\ doc_info' # None => doc_info' = ret[Len(ret)].doc_info
AgainCatalog ==
    /\ RenderCatalog /\ Unfailing
    /\ SameArena /\ catalog' # None => catalog' = ret[Len(ret)].catalog
AgainPageTree ==
    /\ RenderPageTree /\ Unfailing
    /\ SameArena /\ page_tree' # None => page_tree' = ret[Len(ret)].page_tree
AgainKid == RenderKid /\ Unfailing
AgainXref == RenderXref /\ Unfailing
AgainTrailer == RenderTrailer /\ Unfailing

\* document.write(&mut bytes) returned Ok(()): the caller keeps bytes.
KeepRender ==
    /\ pc = "done" /\ result = "ok"
    /\ LET r == [document_id |-> doc[1].document_id, objects |-> RenderObjects,
                 doc_info |-> doc_info, catalog |-> catalog,
                 page_tree |-> page_tree, sink |-> sink]
       IN  ret' = IF SameArena THEN <<ret[Len(ret)], r>> ELSE <<r>>
    /\ pc' = "idle"
    /\ UNCHANGED <<build, args, call_vars, arena_vars, xref_vars, registry_vars,
                   thread_vars, doc, sink, writer, xref, doc_info, catalog,
                   page_tree, stack, xref_offset, result, first_fail>>

ENext ==
    \/ RegisterDocument
    \/ MutateInsertDocInfo
    \/ MutateInsertCatalog
    \/ MutateAddPage
    \/ MutateAddPages
    \/ AgainWrite
    \/ AgainDocInfo
    \/ AgainCatalog
    \/ AgainPageTree
    \/ AgainKid
    \/ AgainXref
    \/ AgainTrailer
    \/ KeepRender
SpecRenderTwice == Init /\ [][ENext]_vars

Name(s) == [kind |-> "Name", n |-> s]
EmptyDict == [k \in {} |-> Null]

Ok(value) == [ok |-> TRUE, value |-> Some(value), err |-> ""]
Err(e) == [ok |-> FALSE, value |-> None, err |-> e]

FilterData(filter, decode_params) == [filter |-> filter, decode_params |-> decode_params]
new_ascii85 == FilterData("ASCII85Decode", EmptyDict)
new_image(filter) == FilterData(filter, EmptyDict)

\* ascii85::encode: "<~", five characters for every four bytes, n + 1
\* characters for a last group of n < 4 bytes, "~>".
Ascii85Len(n) == 2 + 5 * (n \div 4) + (IF n % 4 = 0 THEN 0 ELSE (n % 4) + 1) + 2
Encoded(n) == [encoding |-> "ascii85", len |-> Ascii85Len(n)]

StreamData(length, dict, filter_data, data) ==
    [length |-> length, dict |-> dict, filter_data |-> filter_data, data |-> data]

\* The length field as the size of the bytes before ASCII85.
StreamLengthRaw(source_len, encoded_data) == source_len
\* `length: encoded_data.len()` of encode_png and encode_jpeg.
StreamLength(source_len, encoded_data) == encoded_data.len

encode_png(image) ==
    LET flate_filter ==
            FilterData("FlateDecode",
                       [Predictor |-> Number(15), Colors |-> Number(3),
                        BitsPerComponent |-> Number(8), Columns |-> Number(image.width)])
        encoded_data == Encoded(image.compressed_len)
    IN  Ok(StreamData(StreamLength(image.compressed_len, encoded_data), EmptyDict,
                      <<new_ascii85, flate_filter>>, encoded_data))

encode_jpeg(image) ==
    LET encoded_data == Encoded(image.bytes_len)
    IN  Ok(StreamData(StreamLength(image.bytes_len, encoded_data), EmptyDict,
                      <<new_ascii85, new_image("DCTDecode")>>, encoded_data))

\* image.color() of a DynamicImage, and the colour space and bits chosen.
ColorTypes ==
    {"L8", "La8", "Rgb8", "Rgba8", "L16", "La16", "Rgb16", "Rgba16", "Rgb32F", "Rgba32F"}
ColorSpace(color) == IF color \in {"L8", "La8", "L16", "La16"} THEN "DeviceGray" ELSE "DeviceRGB"
BitsPerComponent(color) ==
    IF color \in {"L8", "La8", "Rgb8", "Rgba8"} THEN 8
    ELSE IF color \in {"L16", "La16", "Rgb16", "Rgba16"} THEN 16
    ELSE IF color \in {"Rgb32F", "Rgba32F"} THEN 32
    ELSE 0

\* The dictionary after the five inserts of encode_image.
ImageDict(dict, image) ==
    [k \in DOMAIN dict \cup {"Type", "Subtype", "Width", "Height", "ColorSpace",
                             "BitsPerComponent"} |->
        CASE k = "Type" -> Name("XObject")
          [] k = "Subtype" -> Name("Image")
          [] k = "Width" -> Number(image.width)
          [] k = "Height" -> Number(image.height)
          [] k = "ColorSpace" -> Name(ColorSpace(image.color))
          [] k = "BitsPerComponent" -> Number(BitsPerComponent(image.color))
          [] OTHER -> dict[k]]

\* StreamData::encode_image.  reader.decode()? fails, before the match,
\* when no format was guessed or the format has no decoder (an
\* ImageError::Unsupported) and when the bytes are not a well-formed image
\* of the guessed format.
encode_image(image) ==
    IF image.format = None \/ ~image.decoder THEN Err("Unsupported")
    ELSE IF ~image.well_formed THEN Err("Decoding")
    ELSE LET stream_data ==
                 IF image.format = Some("Png") THEN encode_png(image)
                 ELSE IF image.format = Some("Jpeg") THEN encode_jpeg(image)
                 ELSE Err("Unsupported image format")
         IN  IF ~stream_data.ok THEN stream_data
             ELSE IF BitsPerComponent(image.color) = 0 THEN Err("Unsupported color type")
             ELSE Ok([stream_data.value[1] EXCEPT !.dict = ImageDict(@, image)])

\* ---------------------------------------------------------------------
\* SpecEncodeImage: encode_image called once on one image.
\* ---------------------------------------------------------------------
ImageFormats == {None, Some("Png"), Some("Jpeg"), Some("Gif"), Some("Bmp")}
ImageWidths == {1, 3}
ImageHeights == {1, 2}
FileLens == {20, 23}
DeflateLens == {11, 12}
Images ==
    [format : ImageFormats, decoder : BOOLEAN, well_formed : BOOLEAN, width : ImageWidths,
     height : ImageHeights, color : ColorTypes, bytes_len : FileLens,
     compressed_len : DeflateLens]

EncodeImage ==
    /\ ret = None
    /\ ret' = Some(encode_image(args))
    /\ UNCHANGED <<args, model_vars>>

IInit ==
    /\ ModelIdle /\ ret = None
    /\ args \in {i \in Images : i.format \in {Some("Png"), Some("Jpeg")} => i.decoder}
INext == EncodeImage
SpecEncodeImage == IInit /\ [][INext]_vars

Filters(stream) == [i \in 1..Len(stream.filter_data) |-> stream.filter_data[i].filter]

MutateAddExisting ==
    \E d \in DOMAIN documents :
        /\ CanMutate
        /\ \E tree \in ByType(documents[d], "Pages"), node \in ByType(documents[d], "Pages") :
               Mutated(d, Insert(documents[d], AddChild(tree, node)[1]))

\* tree.add_child(Object::Page(Page::new(id))) with no insert of the page:
\* the kid list names an id the arena does not hold.  id is
\* objects.new_object_id(), which the next insert will take, or the id
\* after it.
MutateAddMissing ==
    \E d \in DOMAIN documents :
        /\ CanMutate
        /\ \E tree \in ByType(documents[d], "Pages") :
           \E id \in {NewObjectId(documents[d], build)[1],
                      ObjectIdNext(NewObjectId(documents[d], build)[1], build)[1]} :
               Mutated(d, Insert(documents[d], AddChild(tree, Page(id))[1]))

TreesNext ==
    \/ RegisterDocument
    \/ MutateInsertDocInfo
    \/ MutateAddPage
    \/ MutateAddPages
    \/ MutateAddExisting
    \/ MutateAddMissing
    \/ AgainWrite
    \/ AgainDocInfo
    \/ AgainCatalog
    \/ AgainPageTree
    \/ AgainKid
    \/ AgainXref
    \/ AgainTrailer
SpecTrees == Init /\ [][TreesNext]_vars

\* The node is among the kids of itself or of a node below it.
RECURSIVE Below(_, _, _)
Below(o, ids, fuel) ==
    IF fuel = 0 THEN ids
    ELSE Below(o, ids \cup UNION {{o.objects[id].kids[i] : i \in 1..Len(o.objects[id].kids)} :
                                   id \in {j \in ids \cap ObjectsKeys(o) :
                                               o.objects[j].type = "Pages"}},
               fuel - 1)
Descendants(o, id) ==
    Below(o, {o.objects[id].kids[i] : i \in 1..Len(o.objects[id].kids)}, MaxMutations + 1)
Cyclic(o) ==
    \E id \in ObjectsKeys(o) : o.objects[id].type = "Pages" /\ id \in Descendants(o, id)

\* C22: a render of any arena mutate can build comes to an end by running
\* to completion or by an error it returns: it never uses up the stack.
C22_RenderTerminates == result # "stack_overflow"

\* The Pages dictionaries the sink received: <<"Pages", kids, count>> each.
PagesWritten == {sink[i].data : i \in {j \in Places("dict_body") : sink[j].data[1] = "Pages"}}
\* The kids of the nodes written, and those of them the arena does not hold.
KidsWritten == UNION {{node[2][i] : i \in 1..Len(node[2])} : node \in PagesWritten}
MissingKids == KidsWritten \ ObjectsKeys(RenderObjects)
WrittenIds == {sink[i].id[1] : i \in Places("obj")}

\* C23: a kid id for which the arena holds no object is skipped.  Nothing
\* is written for it and no cross-reference entry is added for it, the
\* kids the arena holds are still rendered and the render returns Ok,
\* while the Kids array and the Count of the node written count the missing
\* kid.
C23_MissingKidSkipped ==
    (doc # None /\ MissingKids # {}) =>
        /\ \A id \in MissingKids, i \in 1..Len(sink) : sink[i].id # Some(id)
        /\ NumEntries(xref) = 1 + Cardinality(Places("obj"))
        /\ \A node \in PagesWritten : node[3] = Len(node[2])
        /\ (Done /\ result # "stack_overflow") =>
              /\ result = "ok"
              /\ KidsWritten \ MissingKids \subseteq WrittenIds

\* A render returned Ok for a node whose first kid is missing and whose
\* second kid, a Page of the arena, was written.
C23_Witness ==
    /\ Succeeded
    /\ \E node \in PagesWritten :
          /\ Len(node[2]) = 2
          /\ node[2][1] \in MissingKids
          /\ node[2][2] \in WrittenIds
          /\ node[3] = 2

\* C24: every object header the sink received has a cross-reference entry
\* whose offset is 1 + the number of bytes the sink received before the
\* header; and after every completed object-writing step the table's
\* running total is the number of bytes the sink has received.
C24_EntryBeforeBytes ==
    /\ \A i \in Places("obj") : DefinedInBody(sink[i].id[1])
    /\ (pc \in {"catalog", "page_tree", "kids"} /\ sink # <<>>
            /\ sink[Len(sink)].kind = "endobj")
           => xref.total_bytes = SumBytes(sink)

\* The leaf Page objects of the arena under a node, at any depth.
LeafPages(o, id) ==
    {k \in Descendants(o, id) \cap ObjectsKeys(o) : o.objects[k].type = "Page"}

\* C25: the Count a page-tree node renders is the number of leaf Page
\* objects reachable from the node through kid lists at any depth.
C25_CountIsLeaves ==
    doc # None =>
        \A i \in {j \in Places("dict_body") : sink[j].data[1] = "Pages"} :
            sink[i].data[3] = Cardinality(LeafPages(RenderObjects, sink[i].id[1]))

\* C26: new_object_id, which is ObjectId::next of the largest id inserted,
\* never returns sequence number 0, whatever the arena holds.
C26_NeverZero ==
    arena_new_id # None => arena_new_id[1].object_number # U32Of(0)

\* ======================================================================
\* SpecCollide: a caller that asks an arena for ids without inserting in
\* between, and then inserts the objects it built from them.  args holds
\* the ids drawn and not yet used, ret a report of each insert of an object
\* built from one.
\* ======================================================================
CollideObjects ==
    {Document(0)}
        \cup {CatalogNew(ObjectIdNew(n, g)) : n \in 1..MaxArenaSeq, g \in 0..MaxGen}
        \cup {Page(ObjectIdNew(n, g)) : n \in 1..MaxArenaSeq, g \in 0..MaxGen}

\* objects.insert(object) before any id is drawn.
CollidePrepare ==
    /\ args = <<>> /\ ret = <<>>
    /\ \E object \in CollideObjects : arena' = Insert(arena, object)
    /\ UNCHANGED <<build, pure_vars, call_vars, arena_new_id, arena_panic, xref_vars,
                   registry_vars, render_vars, thread_vars>>

\* let id = objects.new_object_id(): a `&self` method, the arena is not
\* written.
CollideDraw ==
    /\ ret = <<>>
    /\ Len(args) < MaxDraws
    /\ LET r == NewObjectId(arena, build) IN
          /\ args' = Append(args, r[1])
          /\ arena_new_id' = r
    /\ UNCHANGED <<build, ret, call_vars, arena, arena_panic, xref_vars, registry_vars,
                   render_vars, thread_vars>>

\* objects.insert(<an object built from the oldest id drawn>).
CollideInsert ==
    /\ args # <<>>
    /\ \E object \in {Page(Head(args)), CatalogNew(Head(args))} :
          /\ arena' = Insert(arena, object)
          /\ ret' = Append(ret, [object |-> object,
                                 returned |-> InsertReturn(arena, object),
                                 len_before |-> ObjectsLen(arena),
                                 len_after |-> ObjectsLen(Insert(arena, object))])
    /\ args' = Tail(args)
    /\ UNCHANGED <<build, call_vars, arena_new_id, arena_panic, xref_vars, registry_vars,
                   render_vars, thread_vars>>

KNext == CollidePrepare \/ CollideDraw \/ CollideInsert
SpecCollide == Init /\ [][KNext]_vars

\* C27: new_object_id does not change the arena, so the ids drawn with no
\* insert in between are one id; of the objects built from them and
\* inserted, the first takes a new slot and each later one replaces the
\* one before and is handed it back, the arena growing by one in all.
C27_SameSlot ==
    /\ \A i, j \in 1..Len(args) : args[i] = args[j]
    /\ ret = <<>> => \A i \in 1..Len(args) : Some(args[i]) = NewObjectId(arena, build)
    /\ \A i \in 1..Len(ret) :
          /\ ret[i].object.id = ret[1].object.id
          /\ ret[i].len_after = ret[1].len_before + 1
          /\ ret[i].returned = IF i = 1 THEN None ELSE Some(ret[i - 1].object)
          /\ i = Len(ret) => /\ ObjectsGet(arena, ret[i].object.id) = Some(ret[i].object)
                             /\ ObjectsLen(arena) = ret[i].len_after

\* Two ids were drawn from an arena of three objects; a Page and then a
\* Catalog built from them were inserted, and the Catalog replaced the Page.
C27_Witness ==
    /\ Len(ret) = 2
    /\ ret[1].object.type = "Page"
    /\ ret[2].object.type = "Catalog"
    /\ ret[2].returned = Some(ret[1].object)
    /\ ret[1].len_before = 3
    /\ ObjectsLen(arena) = 4

\* C28: the node a render writes as the root of the page tree is the node
\* the catalog of that render names as its pages.
C28_RootIsCatalogPages ==
    (catalog # None /\ page_tree # None) => catalog[1].pages = Some(page_tree[1].id)

\* ======================================================================
\* SpecUpdate: Catalog::update_catalog and DocInfo::update_doc_info on the
\* documents of the registry, with objects of any id.
\* ======================================================================

\* The shape the two functions share: when the lookup finds an object of
\* the type, mutate inserts the new object, and the object the insert
\* replaced is converted back with try_from.
Update(docs, document_id, type, new_object) ==
    LET objects == DocumentsGet(docs, document_id) IN
    IF objects = None \/ ByType(objects[1], type) = {}
    THEN [documents |-> docs, result |-> Ok(None)]
    ELSE LET old_object == InsertReturn(objects[1], new_object) IN
         [documents |-> [docs EXCEPT ![document_id] = Insert(objects[1], new_object)],
          result |-> IF old_object = None THEN Ok(None)
                     ELSE IF old_object[1].type = type THEN Ok(old_object)
                     ELSE Err("Object is not a " \o type)]
update_catalog(docs, document_id, new_catalog) ==
    Update(docs, document_id, "Catalog", new_catalog)
update_doc_info(docs, document_id, new_doc_info) ==
    Update(docs, document_id, "DocInfo", new_doc_info)

\* The ids a caller may give the object: one of the arena's, or a new one.
UpdateIds(docs, d) ==
    IF d \in DOMAIN docs
    THEN ObjectsKeys(docs[d]) \cup {NewObjectId(docs[d], build)[1]}
    ELSE {ObjectIdNew(1, 0)}

Updated(op, d, object, r) ==
    /\ CanMutate
    /\ documents' = r.documents
    /\ fresh' = fresh \ {d}
    /\ mutations' = mutations + 1
    /\ ret' = Some([op |-> op, document_id |-> d, object |-> object,
                    before |-> documents, after |-> r.documents, result |-> r.result])
    /\ UNCHANGED <<build, args, call_vars, arena_vars, xref_vars, render_vars, thread_vars>>

UpdateCatalog ==
    \E d \in DocumentIds :
    \E id \in UpdateIds(documents, d), pages \in {None, Some(ObjectIdNew(1, 0))} :
        Updated("update_catalog", d, Catalog(id, pages),
                update_catalog(documents, d, Catalog(id, pages)))

UpdateDocInfo ==
    \E d \in DocumentIds :
    \E id \in UpdateIds(documents, d) :
        Updated("update_doc_info", d, DocInfo(id),
                update_doc_info(documents, d, DocInfo(id)))

PNext ==
    \/ RegisterDocument
    \/ MutateInsertDocInfo
    \/ MutateAddPage
    \/ UpdateCatalog
    \/ UpdateDocInfo
SpecUpdate == Init /\ [][PNext]_vars

\* The number of objects of a type in a registry's document (0 when the
\* document is not registered).
CountOf(docs, d, type) ==
    IF d \in DOMAIN docs THEN Cardinality(ByType(docs[d], type)) ELSE 0

\* C29: an update that returns an error leaves the registry as it was, and
\* one that returns Ok leaves the numbers of Catalog and of DocInfo
\* objects of the document as they were.
C29_UpdateKeepsArena ==
    ret # None =>
        LET r == ret[1] IN
        IF r.result.ok
        THEN /\ CountOf(r.after, r.document_id, "Catalog")
                    = CountOf(r.before, r.document_id, "Catalog")
             /\ CountOf(r.after, r.document_id, "DocInfo")
                    = CountOf(r.before, r.document_id, "DocInfo")
        ELSE r.after = r.before

\* ---------------------------------------------------------------------
\* SpecRegisteringFair: SpecRegistering with the scheduling the program
\* has.  A thread that holds the mutex is running: it takes its next step
\* whenever it has one.  Nothing makes a thread start a call.
\* ---------------------------------------------------------------------
HolderRuns ==
    \A t \in Threads :
        /\ WF_vars(NewDocumentId(t))
        /\ WF_vars(RegisterInsert(t))
        /\ WF_vars(ClosureInsertPage(t))
        /\ WF_vars(ClosureInsertTree(t))
        /\ WF_vars(MutateUnlock(t))
SpecRegisteringFair == Init /\ [][RNext]_vars /\ HolderRuns

\* C30: a register_document that has taken the registry lock returns and
\* releases it, whatever the registry holds.  DocumentIds is the whole of
\* the handle type (the 65,536 values of a u16 in the program): once every
\* one is a key, the loop of new_document_id draws without end and the
\* thread stays where it is, the lock held.
C30_RegisterReturns ==
    \A t \in Threads : (tpc[t] = "new_document_id") ~> (lock # t)

====
